---------------------------- MODULE Spec2Model ----------------------------
(***************************************************************************)
(* GraphReactApp: the client-side knowledge-graph renderer (two variants   *)
(* of GraphVisualization), the query panel (two variants of QueryInput),   *)
(* the multi-file upload panel (FileUpload) and the Dashboard page, each   *)
(* modelled as a state machine of its React state and its event handlers.  *)
(* One handler (or one synchronous segment of an async handler, up to its  *)
(* next await) is one action: the UI runtime is single-threaded and runs   *)
(* every handler to completion.                                            *)
(***************************************************************************)
EXTENDS Integers, Sequences, FiniteSets, TLC

(***************************************************************************)
(* Bounds of the model.                                                    *)
(***************************************************************************)
MaxNodes == 2
MaxLinks == 1
MaxSims == 3
MaxFiles == 2
MaxRequests == 5
MaxQueryLen == 2
MaxOutstanding == 2
MaxScaleTerm == 400

None == 0

(***************************************************************************)
(* GraphData: {nodes, links}.  A node is represented by its id, a link by  *)
(* its source and target ids.  A link may name an id that is not in nodes. *)
(***************************************************************************)
NodeIds == 1..MaxNodes

RECURSIVE SeqsUpTo(_, _)
SeqsUpTo(S, n) ==
    IF n = 0 THEN {<<>>}
    ELSE LET shorter == SeqsUpTo(S, n - 1)
         IN  shorter \cup {Append(s, x) : s \in shorter, x \in S}

Range(s) == {s[i] : i \in 1..Len(s)}

NodeSeqs == {s \in SeqsUpTo(NodeIds, MaxNodes) : Cardinality(Range(s)) = Len(s)}
Links == [source : NodeIds, target : NodeIds]
LinkSeqs == SeqsUpTo(Links, MaxLinks)
GraphDatas == [nodes : NodeSeqs, links : LinkSeqs]
EmptyGraph == [nodes |-> <<>>, links |-> <<>>]

(* The links of d whose two endpoints are ids of nodes of d. *)
BothEndpointsPresent(d, l) ==
    l.source \in Range(d.nodes) /\ l.target \in Range(d.nodes)
ValidLinkCount(d) ==
    Cardinality({i \in 1..Len(d.links) : BothEndpointsPresent(d, d.links[i])})

(***************************************************************************)
(* d3.forceLink(links).id(d => d.id) as initialised by simulation.force:   *)
(* every link's source and target id is looked up among the simulation's   *)
(* nodes, and an id that is not found raises an error.                     *)
(***************************************************************************)
ForceLinkThrows(d) ==
    \E i \in 1..Len(d.links) : ~BothEndpointsPresent(d, d.links[i])

(***************************************************************************)
(* Force simulations: d3.forceSimulation() returns a simulation whose      *)
(* timer is already running.  A simulation is a record of its timer state  *)
(* and its alpha target (in tenths); sims is the sequence of all the       *)
(* simulations created so far, a simulation's id its index.                *)
(***************************************************************************)
NewSim == [running |-> TRUE, alphaTarget |-> 0]
StopSim(sims, s) ==
    IF s = None THEN sims ELSE [sims EXCEPT ![s].running = FALSE]
RestartSim(sims, s) == [sims EXCEPT ![s].running = TRUE]
RunningSims(sims) == {s \in 1..Len(sims) : sims[s].running}

(***************************************************************************)
(* GraphVisualization, first variant (simulationRef, Reset restarts the    *)
(* simulation, empty data renders the placeholder instead of the <svg>).   *)
(***************************************************************************)
VARIABLES
    gv1_mounted,        \* the component instance is mounted
    gv1_crashed,        \* the effect threw: React unmounted the tree
    gv1_data,           \* the data prop
    gv1_circles,        \* <circle> elements in the svg
    gv1_lines,          \* <line> elements in the svg
    gv1_sims,           \* every simulation this instance created
    gv1_simulationRef,  \* simulationRef.current
    gv1_effectSim,      \* the simulation closed over by the live effect
    gv1_drag,           \* the drag gesture in progress: [node, sim]
    gv1_objects,        \* the objects of the data prop, as they are in memory
    gv1_selectedNode,   \* selectedNode
    gv1_handlerSelectedNode, \* selectedNode as the bound click listener sees it
    gv1_zoom,           \* the zoom transform of the <svg> element (__zoom)
    gv1_layer,          \* the transform attribute of the layer <g>
    gv1_zoomTransform   \* zoomTransform

NoDrag == [node |-> None, sim |-> None]

gv1vars == <<gv1_mounted, gv1_crashed, gv1_data, gv1_circles, gv1_lines,
             gv1_sims, gv1_simulationRef, gv1_effectSim, gv1_drag,
             gv1_objects, gv1_selectedNode, gv1_handlerSelectedNode,
             gv1_zoom, gv1_layer, gv1_zoomTransform>>

(* GraphVisualization, second variant (selectedNode and selectedLink). *)
VARIABLES
    gv2_mounted,        \* the component instance is mounted
    gv2_crashed,        \* the effect threw: React unmounted the tree
    gv2_data,           \* the data prop
    gv2_circles,        \* <circle> elements in the svg
    gv2_lines,          \* <line> elements in the svg
    gv2_sims,           \* every simulation this instance created
    gv2_effectSim,      \* the simulation closed over by the live effect
    gv2_drag,           \* the drag gesture in progress: [node, sim]
    gv2_selectedNode,   \* selectedNode: a node id, or None
    gv2_selectedLink,   \* selectedLink: a link, or NoLink
    gv2_zoom,           \* the transform stored on the <svg> element (its scale)
    gv2_pinned          \* ids of the rendered nodes whose fx, fy are numbers

gv2vars == <<gv2_mounted, gv2_crashed, gv2_data, gv2_circles, gv2_lines,
             gv2_sims, gv2_effectSim, gv2_drag, gv2_selectedNode,
             gv2_selectedLink, gv2_zoom, gv2_pinned>>

(* FileUpload, the multi-file variant. *)
VARIABLES
    fu_files,           \* files: the selected files
    fu_uploading,       \* uploading
    fu_error,           \* error: the message shown in the alert, or NoError
    fu_toast,           \* the title of the latest toast, or NoToast
    fu_pc,              \* where uploadFiles() is: "idle", "loop" or "await"
    fu_batch,           \* the files array closed over by the running uploadFiles()
    fu_i,               \* the loop index i of the running uploadFiles() (from 1)
    fu_sent,            \* the files the running uploadFiles() passed to fileAPI.uploadFile
    fu_completed        \* the latest uploadFiles() run called onComplete()

fuvars == <<fu_files, fu_uploading, fu_error, fu_toast, fu_pc, fu_batch,
            fu_i, fu_sent, fu_completed>>

(* Dashboard (the variant with the query and upload tabs). *)
VARIABLES
    db_mounted,         \* the page is mounted (its mount effect has run)
    db_loading,         \* loading
    db_queryResponse,   \* queryResponse: the request it answers, or None
    db_graphOverview,   \* graphOverview, with the request it answers
    db_healthStatus,    \* healthStatus, or NoHealth
    db_pending,         \* the requests in flight: [kind, id]
    db_nextReq,         \* the id of the next request to be issued
    db_console,         \* the latest console.error message, or NoError
    db_toast            \* the title of the latest toast, or NoToast

dbvars == <<db_mounted, db_loading, db_queryResponse, db_graphOverview,
            db_healthStatus, db_pending, db_nextReq, db_console, db_toast>>

(* QueryInput: one query panel instance, of either variant. *)
VARIABLES
    qi_variant,       \* which QueryInput is mounted: 1, 2, or None
    qi_query,         \* query, the text of the textarea
    qi_loading,       \* variant 1: the loading prop; variant 2: isLoading
    qi_outstanding,   \* the queries of the onSubmit calls not yet completed
    qi_toast          \* the title of the latest toast, or NoToast

qivars == <<qi_variant, qi_query, qi_loading, qi_outstanding, qi_toast>>

(* The circles drawn for the nodes of a payload, by their labels. *)
VARIABLES
    st_labels,        \* the label of each node drawn
    st_fill1,         \* first variant: the fill attribute of each circle
    st_r1,            \* first variant: the r attribute of each circle
    st_fill2,         \* second variant: the fill attribute of each circle
    st_r2,            \* second variant: the r attribute of each circle
    st_stroke,        \* first variant: stroke and stroke-width of each circle
    st_pointer        \* the circle under the pointer (its index), or None

stvars == <<st_labels, st_fill1, st_r1, st_fill2, st_r2, st_stroke,
            st_pointer>>

(* ResponseDisplay: the card showing one query response. *)
VARIABLES
    rd_mounted,       \* the card is on the page
    rd_response,      \* the response prop, as the server sent it
    rd_activeTab,     \* activeTab
    rd_content,       \* what the active tab shows
    rd_error          \* the error a render or an effect of the card raised

rdvars == <<rd_mounted, rd_response, rd_activeTab, rd_content, rd_error>>

(* Router: the application's routes and its login state. *)
VARIABLES
    rt_variant,          \* 0: not loaded; 1: the guarded Router; 2: the demo Router
    rt_isAuthenticated,  \* isAuthenticated
    rt_location,         \* the current path
    rt_token,            \* localStorage has 'token'
    rt_user,             \* localStorage has 'user'
    rt_loggedOut         \* handleLogout has run and no login succeeded since

rtvars == <<rt_variant, rt_isAuthenticated, rt_location, rt_token, rt_user,
            rt_loggedOut>>

(* The detail panel under (or beside) the graph. *)
VARIABLES
    dp_panel,         \* "none", or what is shown: "node1", "node2", "link2"
    dp_properties,    \* the keys of the selected entity's properties
    dp_displayed      \* the keys the panel lists

dpvars == <<dp_panel, dp_properties, dp_displayed>>

(* The server: registerRoutes and the storage module *)
VARIABLES
    sv_variant,       \* which registerRoutes is loaded: 1, 2, or None
    sv_storage,       \* the contents of the storage module's singleton
    sv_memStorage,    \* the contents of the last new MemStorage(), or NoStorage
    sv_global,        \* global.storage: "undefined", "storage", "memStorage"
    sv_response       \* the last answer of POST /api/db-config, or NoReply

svvars == <<sv_variant, sv_storage, sv_memStorage, sv_global, sv_response>>

vars == <<gv1vars, gv2vars, fuvars, dbvars, qivars, stvars, rdvars, rtvars,
          dpvars, svvars>>
gv1others == <<gv2vars, fuvars, dbvars, qivars, stvars, rdvars, rtvars,
               dpvars, svvars>>
gv2others == <<gv1vars, fuvars, dbvars, qivars, stvars, rdvars, rtvars,
               dpvars, svvars>>
fuothers == <<gv1vars, gv2vars, dbvars, qivars, stvars, rdvars, rtvars,
              dpvars, svvars>>
dbothers == <<gv1vars, gv2vars, fuvars, qivars, stvars, rdvars, rtvars,
              dpvars, svvars>>
qiothers == <<gv1vars, gv2vars, fuvars, dbvars, stvars, rdvars, rtvars,
              dpvars, svvars>>
stothers == <<gv1vars, gv2vars, fuvars, dbvars, qivars, rdvars, rtvars,
              dpvars, svvars>>
rdothers == <<gv1vars, gv2vars, fuvars, dbvars, qivars, stvars, rtvars,
              dpvars, svvars>>
rtothers == <<gv1vars, gv2vars, fuvars, dbvars, qivars, stvars, rdvars,
              dpvars, svvars>>
dpothers == <<gv1vars, gv2vars, fuvars, dbvars, qivars, stvars, rdvars,
              rtvars, svvars>>
svothers == <<gv1vars, gv2vars, fuvars, dbvars, qivars, stvars, rdvars,
              rtvars, dpvars>>

(***************************************************************************)
(* The objects of a GraphData value in memory.  React passes the data prop *)
(* by reference, so what the renderer and d3 write to data.nodes[i] and    *)
(* data.links[i] is written to the caller's objects.  Of a node object the *)
(* model keeps whether it carries layout fields (index, x, y, vx, vy) and  *)
(* what its fx/fy pin holds; of a link whether source and target are still *)
(* ids or have been replaced by node objects.                              *)
(***************************************************************************)
AsPassed(d) ==
    [nodes |-> [i \in 1..Len(d.nodes) |->
                   [id |-> d.nodes[i], hasPosition |-> FALSE,
                    fx |-> "undefined"]],
     links |-> [i \in 1..Len(d.links) |->
                   [source |-> d.links[i].source,
                    target |-> d.links[i].target,
                    sourceIsNode |-> FALSE, targetIsNode |-> FALSE]]]

(* d3.forceSimulation(nodes): every node gets index, x, y, vx, vy. *)
InitializeNodes(o) ==
    [o EXCEPT !.nodes =
        [i \in 1..Len(o.nodes) |-> [o.nodes[i] EXCEPT !.hasPosition = TRUE]]]

(* The first link of d with an endpoint that is no node of d, or *)
(* Len(d.links) + 1.                                             *)
FirstDangling(d) ==
    IF ForceLinkThrows(d)
    THEN CHOOSE i \in 1..Len(d.links) :
            /\ ~BothEndpointsPresent(d, d.links[i])
            /\ \A j \in 1..(i - 1) : BothEndpointsPresent(d, d.links[j])
    ELSE Len(d.links) + 1

(* forceLink's initialize: link by link, source then target is replaced *)
(* by the node object with that id, up to the first id not found.       *)
InitializeLinks(d, o) ==
    [o EXCEPT !.links =
        [i \in 1..Len(o.links) |->
            IF i < FirstDangling(d)
            THEN [o.links[i] EXCEPT !.sourceIsNode = TRUE,
                                    !.targetIsNode = TRUE]
            ELSE IF i = FirstDangling(d)
                 THEN [o.links[i] EXCEPT !.sourceIsNode =
                          (d.links[i].source \in Range(d.nodes))]
                 ELSE o.links[i]]]

(* node.fx = node.fy = value for the nodes with an id in ids *)
SetFx(o, ids, value) ==
    [o EXCEPT !.nodes =
        [i \in 1..Len(o.nodes) |->
            IF o.nodes[i].id \in ids
            THEN [o.nodes[i] EXCEPT !.fx = value]
            ELSE o.nodes[i]]]

(* selectedNode: a node object (its id, and whether it is an object of *)
(* the current data prop), or null.                                    *)
NoNode == [id |-> None, current |-> FALSE]

(***************************************************************************)
(* Zoom transforms.  A d3.ZoomTransform is modelled by its scale k, an     *)
(* exact fraction n/d in lowest terms; its translation is left out.        *)
(***************************************************************************)
RECURSIVE GCD(_, _)
GCD(a, b) == IF b = 0 THEN a ELSE GCD(b, a % b)

Scale(n, d) == [n |-> n \div GCD(n, d), d |-> d \div GCD(n, d)]
ScaleTimes(a, b) == Scale(a.n * b.n, a.d * b.d)
Inverse(a) == [n |-> a.d, d |-> a.n]
ScaleLess(a, b) == a.n * b.d < b.n * a.d
ScaleLeq(a, b) == a.n * b.d <= b.n * a.d
(* Math.max(scaleExtent[0], Math.min(scaleExtent[1], k)) *)
ClampScale(scaleExtent, k) ==
    IF ScaleLess(k, scaleExtent[1]) THEN scaleExtent[1]
    ELSE IF ScaleLess(scaleExtent[2], k) THEN scaleExtent[2]
    ELSE k
(* The scales the model follows: numerator and denominator are bounded. *)
Fits(k) == k.n <= MaxScaleTerm /\ k.d <= MaxScaleTerm

zoomIdentity == Scale(1, 1)
(* No transform: a null zoomTransform, an element without __zoom. *)
NoTransform == [n |-> 0, d |-> 1]
(* this.__zoom || identity, and zoomTransform || d3.zoomIdentity *)
DefaultTransform(t) == IF t = NoTransform THEN zoomIdentity ELSE t

(* First variant: scaleExtent([0.25, 5]), identity.scale(0.7), k * 1.3 *)
scaleExtent1 == <<Scale(1, 4), Scale(5, 1)>>
initialZoom1 == Scale(7, 10)
zoomInFactor1 == Scale(13, 10)
manyNodes == 10
(* 2^wheelDelta of one wheel notch in either direction *)
WheelFactors == {Scale(1, 2), Scale(2, 1)}

(* Data for the zoom: no node, one node, more than manyNodes nodes. *)
ManyNodesGraph ==
    [nodes |-> [i \in 1..(manyNodes + 1) |-> i], links |-> <<>>]
ZoomGraphDatas ==
    {EmptyGraph, [nodes |-> <<1>>, links |-> <<>>], ManyNodesGraph}

GV1Init ==
    /\ gv1_mounted = FALSE
    /\ gv1_crashed = FALSE
    /\ gv1_data = EmptyGraph
    /\ gv1_circles = 0
    /\ gv1_lines = 0
    /\ gv1_sims = <<>>
    /\ gv1_simulationRef = None
    /\ gv1_effectSim = None
    /\ gv1_drag = NoDrag
    /\ gv1_objects = AsPassed(EmptyGraph)
    /\ gv1_selectedNode = NoNode
    /\ gv1_handlerSelectedNode = NoNode
    /\ gv1_zoom = NoTransform
    /\ gv1_layer = NoTransform
    /\ gv1_zoomTransform = NoTransform

(* The <svg> is rendered only when data.nodes is not empty. *)
GV1SvgRendered(d) == Len(d.nodes) # 0
(* "No data to visualize" *)
GV1Placeholder == gv1_mounted /\ Len(gv1_data.nodes) = 0

(* if (data.nodes.length > 10): the scale after the effect's zoom set-up, *)
(* k being the scale the <svg> element already carries.                   *)
GV1InitialZoom(d, k) ==
    IF Len(d.nodes) > manyNodes THEN initialZoom1 ELSE k

(***************************************************************************)
(* The body of useEffect(..., [data]) run for data d, after the cleanup of *)
(* the previous effect left the simulations as sims.  The render before it *)
(* has replaced the <svg> by the placeholder, or the placeholder by a new  *)
(* <svg>, when data.nodes became empty or non-empty.  The listeners the    *)
(* effect binds close over the state of that render.                       *)
(***************************************************************************)
GV1Effect(d, sims) ==
    /\ gv1_handlerSelectedNode' = gv1_selectedNode'
    /\ IF ~GV1SvgRendered(d) \/ Len(d.nodes) = 0
       THEN \* early return; a re-rendered placeholder replaces the svg
            /\ gv1_circles' = 0
            /\ gv1_lines' = 0
            /\ gv1_sims' = sims
            /\ gv1_effectSim' = None
            /\ UNCHANGED gv1_simulationRef
            /\ gv1_mounted' = TRUE
            /\ UNCHANGED gv1_crashed
            /\ gv1_objects' = AsPassed(d)
            /\ gv1_zoom' = NoTransform
            /\ gv1_layer' = NoTransform
            /\ UNCHANGED gv1_zoomTransform
       ELSE /\ gv1_zoom' = GV1InitialZoom(d, DefaultTransform(gv1_zoom))
            /\ gv1_layer' = GV1InitialZoom(d, zoomIdentity)
            /\ gv1_zoomTransform' = GV1InitialZoom(d, gv1_zoomTransform)
            /\ gv1_lines' = Len(d.links)
            /\ gv1_circles' = Len(d.nodes)
            /\ gv1_sims' = Append(sims, NewSim)
            /\ gv1_objects' = InitializeLinks(d, InitializeNodes(AsPassed(d)))
            /\ IF ForceLinkThrows(d)
               THEN \* the effect throws before simulationRef is assigned and
                    \* before a cleanup is returned; React unmounts the tree
                    /\ gv1_crashed' = TRUE
                    /\ gv1_mounted' = FALSE
                    /\ gv1_effectSim' = None
                    /\ UNCHANGED gv1_simulationRef
               ELSE /\ gv1_simulationRef' = Len(sims) + 1
                    /\ gv1_effectSim' = Len(sims) + 1
                    /\ gv1_mounted' = TRUE
                    /\ UNCHANGED gv1_crashed

GV1Mount(d) ==
    /\ ~gv1_mounted /\ ~gv1_crashed /\ gv1_sims = <<>>
    /\ gv1_data' = d
    /\ UNCHANGED gv1_selectedNode
    /\ GV1Effect(d, gv1_sims)
    /\ UNCHANGED gv1_drag
    /\ UNCHANGED gv1others

(* A new data prop: the previous effect's cleanup, then the effect.  The *)
(* selected node stays the object of the previous data.                  *)
GV1DataChange(d) ==
    /\ gv1_mounted
    /\ Len(gv1_sims) < MaxSims
    /\ gv1_data' = d
    /\ gv1_selectedNode' = [gv1_selectedNode EXCEPT !.current = FALSE]
    /\ GV1Effect(d, StopSim(gv1_sims, gv1_effectSim))
    /\ UNCHANGED gv1_drag
    /\ UNCHANGED gv1others

GV1Unmount ==
    /\ gv1_mounted
    /\ gv1_mounted' = FALSE
    /\ gv1_sims' = StopSim(gv1_sims, gv1_effectSim)
    /\ gv1_effectSim' = None
    /\ gv1_zoom' = NoTransform
    /\ gv1_layer' = NoTransform
    /\ UNCHANGED <<gv1_crashed, gv1_data, gv1_circles, gv1_lines,
                   gv1_simulationRef, gv1_drag, gv1_objects,
                   gv1_selectedNode, gv1_handlerSelectedNode,
                   gv1_zoomTransform>>
    /\ UNCHANGED gv1others

(* dragStarted with event.active = 0 (no other gesture in progress); the *)
(* subject is the node object of data.nodes bound to the circle.         *)
GV1DragStarted(n) ==
    /\ gv1_mounted /\ gv1_effectSim # None /\ gv1_drag = NoDrag
    /\ n \in Range(gv1_data.nodes)
    /\ gv1_sims' = [gv1_sims EXCEPT ![gv1_effectSim] =
                        [running |-> TRUE, alphaTarget |-> 3]]
    /\ gv1_drag' = [node |-> n, sim |-> gv1_effectSim]
    /\ gv1_objects' = SetFx(gv1_objects, {n}, "number")
    /\ UNCHANGED <<gv1_mounted, gv1_crashed, gv1_data, gv1_circles,
                   gv1_lines, gv1_simulationRef, gv1_effectSim>>
    /\ UNCHANGED <<gv1_selectedNode, gv1_handlerSelectedNode, gv1_zoom,
                   gv1_layer, gv1_zoomTransform>>
    /\ UNCHANGED gv1others

(* dragged: the subject is pinned at the pointer's position. *)
GV1Dragged ==
    /\ gv1_drag # NoDrag
    /\ gv1_objects' = IF gv1_drag.sim = Len(gv1_sims)
                      THEN SetFx(gv1_objects, {gv1_drag.node}, "number")
                      ELSE gv1_objects
    /\ UNCHANGED <<gv1_mounted, gv1_crashed, gv1_data, gv1_circles,
                   gv1_lines, gv1_sims, gv1_simulationRef, gv1_effectSim,
                   gv1_drag>>
    /\ UNCHANGED <<gv1_selectedNode, gv1_handlerSelectedNode, gv1_zoom,
                   gv1_layer, gv1_zoomTransform>>
    /\ UNCHANGED gv1others

(* A dragEnded that leaves its subject pinned. *)
GV1DragEnded_KeepsPin ==
    /\ gv1_drag # NoDrag
    /\ gv1_sims' = [gv1_sims EXCEPT ![gv1_drag.sim].alphaTarget = 0]
    /\ gv1_drag' = NoDrag
    /\ UNCHANGED <<gv1_mounted, gv1_crashed, gv1_data, gv1_circles,
                   gv1_lines, gv1_simulationRef, gv1_effectSim, gv1_objects>>
    /\ UNCHANGED <<gv1_selectedNode, gv1_handlerSelectedNode, gv1_zoom,
                   gv1_layer, gv1_zoomTransform>>
    /\ UNCHANGED gv1others

(* dragEnded: the gesture's listeners live on the window, so the gesture *)
(* ends even when its circle has been removed meanwhile; its subject is  *)
(* a node of the data the gesture started on, which is the data of       *)
(* gv1_objects as long as no later effect has created a simulation.      *)
GV1DragEnded ==
    /\ gv1_drag # NoDrag
    /\ gv1_sims' = [gv1_sims EXCEPT ![gv1_drag.sim].alphaTarget = 0]
    /\ gv1_drag' = NoDrag
    /\ gv1_objects' = IF gv1_drag.sim = Len(gv1_sims)
                      THEN SetFx(gv1_objects, {gv1_drag.node}, "null")
                      ELSE gv1_objects
    /\ UNCHANGED <<gv1_mounted, gv1_crashed, gv1_data, gv1_circles,
                   gv1_lines, gv1_simulationRef, gv1_effectSim>>
    /\ UNCHANGED <<gv1_selectedNode, gv1_handlerSelectedNode, gv1_zoom,
                   gv1_layer, gv1_zoomTransform>>
    /\ UNCHANGED gv1others

(* handleReset: the transition to zoomIdentity is run by a zoom behaviour *)
(* created on the spot, which has no "zoom" listener.                     *)
GV1HandleReset ==
    /\ gv1_mounted
    /\ GV1SvgRendered(gv1_data) /\ gv1_simulationRef # None
    /\ gv1_zoom' = zoomIdentity
    /\ gv1_sims' = RestartSim(gv1_sims, gv1_simulationRef)
    /\ gv1_objects' = SetFx(gv1_objects, Range(gv1_data.nodes), "null")
    /\ UNCHANGED <<gv1_mounted, gv1_crashed, gv1_data, gv1_circles,
                   gv1_lines, gv1_simulationRef, gv1_effectSim, gv1_drag>>
    /\ UNCHANGED <<gv1_selectedNode, gv1_handlerSelectedNode, gv1_layer,
                   gv1_zoomTransform>>
    /\ UNCHANGED gv1others

(* A running simulation whose alpha target is 0 cools down and stops. *)
GV1SimSettles(s) ==
    /\ s \in RunningSims(gv1_sims)
    /\ gv1_sims[s].alphaTarget = 0
    /\ gv1_sims' = StopSim(gv1_sims, s)
    /\ UNCHANGED <<gv1_mounted, gv1_crashed, gv1_data, gv1_circles,
                   gv1_lines, gv1_simulationRef, gv1_effectSim, gv1_drag>>
    /\ UNCHANGED <<gv1_objects, gv1_selectedNode, gv1_handlerSelectedNode,
                   gv1_zoom, gv1_layer, gv1_zoomTransform>>
    /\ UNCHANGED gv1others

(* setSelectedNode(node === selectedNode ? null : node) *)
handleNodeClick(node, selectedNode) ==
    IF node = selectedNode THEN NoNode ELSE node

(* A click on a circle: handleNodeClick is called by the listener the    *)
(* live effect bound, so the selectedNode it compares with is the one of *)
(* the render that effect belongs to.                                    *)
GV1NodeClick(n) ==
    /\ gv1_mounted /\ gv1_effectSim # None
    /\ n \in Range(gv1_data.nodes)
    /\ gv1_selectedNode' =
          handleNodeClick([id |-> n, current |-> TRUE], gv1_handlerSelectedNode)
    /\ UNCHANGED <<gv1_mounted, gv1_crashed, gv1_data, gv1_circles,
                   gv1_lines, gv1_sims, gv1_simulationRef, gv1_effectSim,
                   gv1_drag>>
    /\ UNCHANGED <<gv1_objects, gv1_handlerSelectedNode, gv1_zoom, gv1_layer,
                   gv1_zoomTransform>>
    /\ UNCHANGED gv1others

(* A wheel gesture on the <svg>, handled by the zoom behaviour the effect *)
(* bound: the scale is multiplied by 2^wheelDelta, clamped to scaleExtent, *)
(* and the "zoom" listener moves the layer and stores the transform.       *)
GV1Wheel(factor) ==
    /\ gv1_mounted /\ gv1_effectSim # None
    /\ LET k == ClampScale(scaleExtent1, ScaleTimes(gv1_zoom, factor))
       IN  /\ k # gv1_zoom
           /\ Fits(k)
           /\ gv1_zoom' = k
           /\ gv1_layer' = k
           /\ gv1_zoomTransform' = k
    /\ UNCHANGED <<gv1_mounted, gv1_crashed, gv1_data, gv1_circles,
                   gv1_lines, gv1_sims, gv1_simulationRef, gv1_effectSim,
                   gv1_drag>>
    /\ UNCHANGED <<gv1_objects, gv1_selectedNode, gv1_handlerSelectedNode>>
    /\ UNCHANGED gv1others

(* A drag gesture on the background: the zoom behaviour translates the *)
(* element's current transform, whatever its scale, and the listener   *)
(* moves the layer and stores the transform.                           *)
GV1Pan ==
    /\ gv1_mounted /\ gv1_effectSim # None
    /\ gv1_layer' = gv1_zoom
    /\ gv1_zoomTransform' = gv1_zoom
    /\ UNCHANGED <<gv1_mounted, gv1_crashed, gv1_data, gv1_circles,
                   gv1_lines, gv1_sims, gv1_simulationRef, gv1_effectSim,
                   gv1_drag>>
    /\ UNCHANGED <<gv1_objects, gv1_selectedNode, gv1_handlerSelectedNode,
                   gv1_zoom>>
    /\ UNCHANGED gv1others

(* currentTransform.scale(currentTransform.k * 1.3), as handleZoomIn *)
(* computes it: Transform.scale(s) multiplies the scale by s.        *)
GV1ZoomInTransform(currentTransform) ==
    ScaleTimes(currentTransform, ScaleTimes(currentTransform, zoomInFactor1))

(* currentTransform.scale(currentTransform.k / 1.3) *)
GV1ZoomOutTransform(currentTransform) ==
    ScaleTimes(currentTransform,
               ScaleTimes(currentTransform, Inverse(zoomInFactor1)))

(* The zoom of the instance: the element's transform, the layer's *)
(* transform attribute and the zoomTransform state.               *)
GV1ZoomState ==
    [zoom |-> gv1_zoom, layer |-> gv1_layer, zoomTransform |-> gv1_zoomTransform]

(* handleZoomIn on a rendered <svg>: zoom.transform of a zoom behaviour *)
(* created on the spot sets the element's transform as given            *)
(* (zoom.transform does not apply scaleExtent), and that behaviour has  *)
(* no "zoom" listener, so neither the layer nor zoomTransform follows.  *)
handleZoomIn1(z) ==
    [z EXCEPT !.zoom = GV1ZoomInTransform(DefaultTransform(z.zoomTransform))]

(* handleZoomOut on a rendered <svg> *)
handleZoomOut1(z) ==
    [z EXCEPT !.zoom = GV1ZoomOutTransform(DefaultTransform(z.zoomTransform))]

GV1HandleZoomIn ==
    /\ gv1_mounted /\ GV1SvgRendered(gv1_data)
    /\ LET z == handleZoomIn1(GV1ZoomState)
       IN  /\ Fits(z.zoom)
           /\ gv1_zoom' = z.zoom
           /\ gv1_layer' = z.layer
           /\ gv1_zoomTransform' = z.zoomTransform
    /\ UNCHANGED <<gv1_mounted, gv1_crashed, gv1_data, gv1_circles,
                   gv1_lines, gv1_sims, gv1_simulationRef, gv1_effectSim,
                   gv1_drag>>
    /\ UNCHANGED <<gv1_objects, gv1_selectedNode, gv1_handlerSelectedNode>>
    /\ UNCHANGED gv1others

GV1HandleZoomOut ==
    /\ gv1_mounted /\ GV1SvgRendered(gv1_data)
    /\ LET z == handleZoomOut1(GV1ZoomState)
       IN  /\ Fits(z.zoom)
           /\ gv1_zoom' = z.zoom
           /\ gv1_layer' = z.layer
           /\ gv1_zoomTransform' = z.zoomTransform
    /\ UNCHANGED <<gv1_mounted, gv1_crashed, gv1_data, gv1_circles,
                   gv1_lines, gv1_sims, gv1_simulationRef, gv1_effectSim,
                   gv1_drag>>
    /\ UNCHANGED <<gv1_objects, gv1_selectedNode, gv1_handlerSelectedNode>>
    /\ UNCHANGED gv1others

GV1Next ==
    \/ \E d \in GraphDatas : GV1Mount(d)
    \/ \E d \in GraphDatas : GV1DataChange(d)
    \/ GV1Unmount
    \/ \E n \in NodeIds : GV1DragStarted(n)
    \/ GV1Dragged
    \/ GV1DragEnded
    \/ GV1HandleReset
    \/ \E s \in 1..MaxSims : GV1SimSettles(s)
    \/ \E n \in NodeIds : GV1NodeClick(n)

(* The zoom of the first variant: data of few and of many nodes, the *)
(* gestures of the zoom behaviour and the three buttons.             *)
GV1ZoomNext ==
    \/ \E d \in ZoomGraphDatas : GV1Mount(d)
    \/ \E d \in ZoomGraphDatas : GV1DataChange(d)
    \/ \E factor \in WheelFactors : GV1Wheel(factor)
    \/ GV1Pan
    \/ GV1HandleZoomIn
    \/ GV1HandleZoomOut
    \/ GV1HandleReset


(***************************************************************************)
(* GraphVisualization, second variant.  The <svg> is always rendered; the  *)
(* effect returns early only when the svg, data, data.nodes or data.links  *)
(* is missing, and an empty array is none of these.                        *)
(***************************************************************************)
NoLink == [source |-> None, target |-> None]

GV2Init ==
    /\ gv2_mounted = FALSE
    /\ gv2_crashed = FALSE
    /\ gv2_data = EmptyGraph
    /\ gv2_circles = 0
    /\ gv2_lines = 0
    /\ gv2_sims = <<>>
    /\ gv2_effectSim = None
    /\ gv2_drag = NoDrag
    /\ gv2_selectedNode = None
    /\ gv2_selectedLink = NoLink
    /\ gv2_zoom = NoTransform
    /\ gv2_pinned = {}

(* "No graph data available." *)
GV2Placeholder == gv2_mounted /\ Len(gv2_data.nodes) = 0

(* The effect's guard: !svgRef.current || !data || !data.nodes || !data.links *)
GV2EffectReturnsEarly(d) == FALSE

(* zoomIdentity scaled by initialScale = 0.8 about the centre *)
initialZoom2 == Scale(4, 5)
zoomInFactor2 == Scale(6, 5)
zoomOutFactor2 == Scale(4, 5)

GV2Effect(d, sims) ==
    /\ gv2_pinned' = {}
    /\ IF GV2EffectReturnsEarly(d)
       THEN /\ gv2_sims' = sims
            /\ gv2_effectSim' = None
            /\ gv2_mounted' = TRUE
            /\ UNCHANGED <<gv2_circles, gv2_lines, gv2_crashed, gv2_zoom>>
       ELSE /\ gv2_lines' = Len(d.links)
            /\ gv2_circles' = Len(d.nodes)
            /\ gv2_sims' = Append(sims, NewSim)
            /\ IF ForceLinkThrows(d)
               THEN /\ gv2_crashed' = TRUE
                    /\ gv2_mounted' = FALSE
                    /\ gv2_effectSim' = None
                    /\ gv2_zoom' = DefaultTransform(gv2_zoom)
               ELSE /\ gv2_effectSim' = Len(sims) + 1
                    /\ gv2_mounted' = TRUE
                    /\ gv2_zoom' = initialZoom2
                    /\ UNCHANGED gv2_crashed

GV2Mount(d) ==
    /\ ~gv2_mounted /\ ~gv2_crashed /\ gv2_sims = <<>>
    /\ gv2_data' = d
    /\ GV2Effect(d, gv2_sims)
    /\ UNCHANGED <<gv2_drag, gv2_selectedNode, gv2_selectedLink>>
    /\ UNCHANGED gv2others

GV2DataChange(d) ==
    /\ gv2_mounted
    /\ Len(gv2_sims) < MaxSims
    /\ gv2_data' = d
    /\ GV2Effect(d, StopSim(gv2_sims, gv2_effectSim))
    /\ UNCHANGED <<gv2_drag, gv2_selectedNode, gv2_selectedLink>>
    /\ UNCHANGED gv2others

GV2Unmount ==
    /\ gv2_mounted
    /\ gv2_mounted' = FALSE
    /\ gv2_sims' = StopSim(gv2_sims, gv2_effectSim)
    /\ gv2_effectSim' = None
    /\ gv2_zoom' = NoTransform
    /\ UNCHANGED <<gv2_crashed, gv2_data, gv2_circles, gv2_lines, gv2_drag,
                   gv2_selectedNode, gv2_selectedLink, gv2_pinned>>
    /\ UNCHANGED gv2others

(* The click handler of a <line>; stopPropagation keeps it from the svg. *)
GV2LinkClick(l) ==
    /\ gv2_mounted /\ gv2_lines > 0
    /\ l \in Range(gv2_data.links)
    /\ gv2_selectedNode' = None
    /\ gv2_selectedLink' = l
    /\ UNCHANGED <<gv2_mounted, gv2_crashed, gv2_data, gv2_circles,
                   gv2_lines, gv2_sims, gv2_effectSim, gv2_drag>>
    /\ UNCHANGED <<gv2_zoom, gv2_pinned>>
    /\ UNCHANGED gv2others

(* GV2NodeClick without its setSelectedLink(null). *)
GV2NodeClick_KeepsLink(n) ==
    /\ gv2_mounted /\ gv2_circles > 0
    /\ n \in Range(gv2_data.nodes)
    /\ gv2_selectedNode' = n
    /\ UNCHANGED <<gv2_mounted, gv2_crashed, gv2_data, gv2_circles,
                   gv2_lines, gv2_sims, gv2_effectSim, gv2_drag,
                   gv2_selectedLink>>
    /\ UNCHANGED <<gv2_zoom, gv2_pinned>>
    /\ UNCHANGED gv2others

(* The click handler of a <circle>; stopPropagation keeps it from the svg. *)
GV2NodeClick(n) ==
    /\ gv2_mounted /\ gv2_circles > 0
    /\ n \in Range(gv2_data.nodes)
    /\ gv2_selectedLink' = NoLink
    /\ gv2_selectedNode' = n
    /\ UNCHANGED <<gv2_mounted, gv2_crashed, gv2_data, gv2_circles,
                   gv2_lines, gv2_sims, gv2_effectSim, gv2_drag>>
    /\ UNCHANGED <<gv2_zoom, gv2_pinned>>
    /\ UNCHANGED gv2others

(* svg.on("click"): a click on the background. *)
GV2BackgroundClick ==
    /\ gv2_mounted
    /\ gv2_selectedNode' = None
    /\ gv2_selectedLink' = NoLink
    /\ UNCHANGED <<gv2_mounted, gv2_crashed, gv2_data, gv2_circles,
                   gv2_lines, gv2_sims, gv2_effectSim, gv2_drag>>
    /\ UNCHANGED <<gv2_zoom, gv2_pinned>>
    /\ UNCHANGED gv2others

(* The X button of the detail panel, rendered while something is selected. *)
GV2ClosePanel ==
    /\ gv2_mounted
    /\ gv2_selectedNode # None \/ gv2_selectedLink # NoLink
    /\ gv2_selectedNode' = None
    /\ gv2_selectedLink' = NoLink
    /\ UNCHANGED <<gv2_mounted, gv2_crashed, gv2_data, gv2_circles,
                   gv2_lines, gv2_sims, gv2_effectSim, gv2_drag>>
    /\ UNCHANGED <<gv2_zoom, gv2_pinned>>
    /\ UNCHANGED gv2others

GV2DragStarted(n) ==
    /\ gv2_mounted /\ gv2_effectSim # None /\ gv2_drag = NoDrag
    /\ n \in Range(gv2_data.nodes)
    /\ gv2_sims' = [gv2_sims EXCEPT ![gv2_effectSim] =
                        [running |-> TRUE, alphaTarget |-> 3]]
    /\ gv2_drag' = [node |-> n, sim |-> gv2_effectSim]
    /\ gv2_pinned' = gv2_pinned \cup {n}
    /\ UNCHANGED gv2_zoom
    /\ UNCHANGED <<gv2_mounted, gv2_crashed, gv2_data, gv2_circles,
                   gv2_lines, gv2_effectSim, gv2_selectedNode,
                   gv2_selectedLink>>
    /\ UNCHANGED gv2others

GV2DragEnded ==
    /\ gv2_drag # NoDrag
    /\ gv2_sims' = [gv2_sims EXCEPT ![gv2_drag.sim].alphaTarget = 0]
    /\ gv2_drag' = NoDrag
    /\ gv2_pinned' = IF gv2_drag.sim = Len(gv2_sims)
                      THEN gv2_pinned \ {gv2_drag.node}
                      ELSE gv2_pinned
    /\ UNCHANGED gv2_zoom
    /\ UNCHANGED <<gv2_mounted, gv2_crashed, gv2_data, gv2_circles,
                   gv2_lines, gv2_effectSim, gv2_selectedNode,
                   gv2_selectedLink>>
    /\ UNCHANGED gv2others

GV2SimSettles(s) ==
    /\ s \in RunningSims(gv2_sims)
    /\ gv2_sims[s].alphaTarget = 0
    /\ gv2_sims' = StopSim(gv2_sims, s)
    /\ UNCHANGED <<gv2_mounted, gv2_crashed, gv2_data, gv2_circles,
                   gv2_lines, gv2_effectSim, gv2_drag, gv2_selectedNode,
                   gv2_selectedLink>>
    /\ UNCHANGED <<gv2_zoom, gv2_pinned>>
    /\ UNCHANGED gv2others

(* The buttons' scaleBy acts through a new d3.zoom(), whose scale extent *)
(* is the default [0, Infinity]: the factor is applied without a clamp.  *)
GV2ScaleBy(factor) ==
    /\ gv2_mounted
    /\ Fits(ScaleTimes(DefaultTransform(gv2_zoom), factor))
    /\ gv2_zoom' = ScaleTimes(DefaultTransform(gv2_zoom), factor)
    /\ UNCHANGED <<gv2_mounted, gv2_crashed, gv2_data, gv2_circles,
                   gv2_lines, gv2_sims, gv2_effectSim, gv2_drag,
                   gv2_selectedNode, gv2_selectedLink, gv2_pinned>>

GV2HandleZoomIn ==
    /\ GV2ScaleBy(zoomInFactor2)
    /\ UNCHANGED gv2others

GV2HandleZoomOut ==
    /\ GV2ScaleBy(zoomOutFactor2)
    /\ UNCHANGED gv2others

(* handleReset: the initial transform is set on the <svg> again; neither *)
(* the simulation nor any node is touched.                               *)
GV2HandleReset ==
    /\ gv2_mounted
    /\ gv2_zoom' = initialZoom2
    /\ UNCHANGED <<gv2_mounted, gv2_crashed, gv2_data, gv2_circles,
                   gv2_lines, gv2_sims, gv2_effectSim, gv2_drag,
                   gv2_selectedNode, gv2_selectedLink, gv2_pinned>>
    /\ UNCHANGED gv2others

GV2Next ==
    \/ \E d \in GraphDatas : GV2Mount(d)
    \/ \E d \in GraphDatas : GV2DataChange(d)
    \/ GV2Unmount
    \/ \E l \in Links : GV2LinkClick(l)
    \/ \E n \in NodeIds : GV2NodeClick(n)
    \/ GV2BackgroundClick
    \/ GV2ClosePanel
    \/ \E n \in NodeIds : GV2DragStarted(n)
    \/ GV2DragEnded
    \/ \E s \in 1..MaxSims : GV2SimSettles(s)
    \/ GV2HandleZoomIn
    \/ GV2HandleZoomOut
    \/ GV2HandleReset

(***************************************************************************)
(* FileUpload (multi-file variant).  A File is its name (a sequence of     *)
(* characters), its MIME type and its size in bytes.                       *)
(***************************************************************************)
maxSize == 15 * 1024 * 1024

allowedTypes ==
    { "application/pdf",
      "application/vnd.openxmlformats-officedocument.wordprocessingml.document",
      "application/msword",
      "text/plain",
      "image/jpeg",
      "image/png",
      "image/tiff",
      "application/json",
      "application/ld+json",
      "text/csv",
      "application/vnd.ms-excel",
      "application/vnd.openxmlformats-officedocument.spreadsheetml.sheet",
      "text/tab-separated-values",
      "application/xml",
      "text/xml" }

validExtensions ==
    { <<".", "p", "d", "f">>, <<".", "j", "p", "g">>,
      <<".", "j", "p", "e", "g">>, <<".", "p", "n", "g">>,
      <<".", "t", "i", "f", "f">>, <<".", "t", "x", "t">>,
      <<".", "d", "o", "c">>, <<".", "d", "o", "c", "x">>,
      <<".", "j", "s", "o", "n">>, <<".", "c", "s", "v">>,
      <<".", "x", "l", "s">>, <<".", "x", "l", "s", "x">>,
      <<".", "t", "s", "v">>, <<".", "x", "m", "l">> }

UpperCase == <<"A", "B", "C", "D", "E", "F", "G", "H", "I", "J", "K", "L", "M",
               "N", "O", "P", "Q", "R", "S", "T", "U", "V", "W", "X", "Y", "Z">>
LowerCase == <<"a", "b", "c", "d", "e", "f", "g", "h", "i", "j", "k", "l", "m",
               "n", "o", "p", "q", "r", "s", "t", "u", "v", "w", "x", "y", "z">>

(* String.prototype.toLowerCase *)
toLowerCase(str) ==
    [k \in 1..Len(str) |->
        IF \E u \in 1..Len(UpperCase) : UpperCase[u] = str[k]
        THEN LowerCase[CHOOSE u \in 1..Len(UpperCase) : UpperCase[u] = str[k]]
        ELSE str[k]]

(* String.prototype.endsWith *)
endsWith(str, suffix) ==
    /\ Len(suffix) <= Len(str)
    /\ SubSeq(str, Len(str) - Len(suffix) + 1, Len(str)) = suffix

UnsupportedTypeMessage ==
    "Unsupported file type. Please upload PDF, image, document, or data files (JSON, CSV, etc.)."
SizeLimitMessage == "File is too large. Maximum file size is 15MB."
UploadErrorMessage ==
    "An error occurred while uploading the file. Please try again."
NoError == "null"
NoToast == "none"

hasValidExtension(file) ==
    \E ext \in validExtensions : endsWith(toLowerCase(file.name), ext)

(* validateFile without its size check. *)
validateFile_NoSizeCheck(file) ==
    IF file.type \notin allowedTypes /\ ~hasValidExtension(file)
    THEN [ok |-> FALSE, error |-> UnsupportedTypeMessage]
    ELSE [ok |-> TRUE, error |-> NoError]

(* validateFile: its result, and the message it passes to setError. *)
validateFile(file) ==
    IF file.type \notin allowedTypes /\ ~hasValidExtension(file)
    THEN [ok |-> FALSE, error |-> UnsupportedTypeMessage]
    ELSE IF file.size > maxSize
    THEN [ok |-> FALSE, error |-> SizeLimitMessage]
    ELSE [ok |-> TRUE, error |-> NoError]

(* The files a user picks or drops in this model. *)
FileNames == { <<"a", ".", "p", "d", "f">>, <<"A", ".", "P", "D", "F">>,
               <<"a", ".", "e", "x", "e">> }
FileTypes == { "application/pdf", "application/x-msdownload" }
FileSizes == { maxSize, maxSize + 1 }
Files == [name : FileNames, type : FileTypes, size : FileSizes]

FUInit ==
    /\ fu_files = <<>>
    /\ fu_uploading = FALSE
    /\ fu_error = NoError
    /\ fu_toast = NoToast
    /\ fu_pc = "idle"
    /\ fu_batch = <<>>
    /\ fu_i = 0
    /\ fu_sent = <<>>
    /\ fu_completed = FALSE

(* The file picker; the input has no "multiple" attribute and is disabled *)
(* while uploading.                                                       *)
FUHandleFileChange(file) ==
    /\ fu_pc = "idle" /\ ~fu_uploading
    /\ Len(fu_files) < MaxFiles
    /\ fu_files' = Append(fu_files, file)
    /\ fu_error' = NoError
    /\ UNCHANGED <<fu_uploading, fu_toast, fu_pc, fu_batch, fu_i, fu_sent,
                   fu_completed>>
    /\ UNCHANGED fuothers

(* A drop on the drop zone, which stays active while uploading. *)
FUHandleDrop(droppedFiles) ==
    /\ fu_pc \in {"idle", "await"}
    /\ droppedFiles # <<>>
    /\ Len(fu_files) + Len(droppedFiles) <= MaxFiles
    /\ fu_files' = fu_files \o droppedFiles
    /\ fu_error' = NoError
    /\ UNCHANGED <<fu_uploading, fu_toast, fu_pc, fu_batch, fu_i, fu_sent,
                   fu_completed>>
    /\ UNCHANGED fuothers

(* The X button of a file row, disabled while uploading. *)
FURemoveFile(index) ==
    /\ fu_pc = "idle" /\ ~fu_uploading
    /\ index \in 1..Len(fu_files)
    /\ fu_files' = [k \in 1..(Len(fu_files) - 1) |->
                        IF k < index THEN fu_files[k] ELSE fu_files[k + 1]]
    /\ UNCHANGED <<fu_uploading, fu_error, fu_toast, fu_pc, fu_batch, fu_i,
                   fu_sent, fu_completed>>
    /\ UNCHANGED fuothers

(* The Clear button, disabled when there is no file or while uploading. *)
FUClear ==
    /\ fu_pc = "idle" /\ ~fu_uploading
    /\ fu_files # <<>>
    /\ fu_files' = <<>>
    /\ UNCHANGED <<fu_uploading, fu_error, fu_toast, fu_pc, fu_batch, fu_i,
                   fu_sent, fu_completed>>
    /\ UNCHANGED fuothers

(* The Upload button (disabled when there is no file or while uploading): *)
(* uploadFiles() up to the head of its loop.                              *)
FUUploadFiles ==
    /\ fu_pc = "idle" /\ ~fu_uploading
    /\ fu_files # <<>>
    /\ fu_uploading' = TRUE
    /\ fu_batch' = fu_files
    /\ fu_i' = 1
    /\ fu_sent' = <<>>
    /\ fu_completed' = FALSE
    /\ fu_pc' = "loop"
    /\ UNCHANGED <<fu_files, fu_error, fu_toast>>
    /\ UNCHANGED fuothers

(* A loop that calls fileAPI.uploadFile(file) without awaiting it. *)
FULoopStep_NoAwait ==
    /\ fu_pc = "loop"
    /\ IF fu_i <= Len(fu_batch)
       THEN /\ fu_sent' = IF validateFile(fu_batch[fu_i]).ok
                          THEN Append(fu_sent, fu_batch[fu_i])
                          ELSE fu_sent
            /\ fu_i' = fu_i + 1
            /\ UNCHANGED <<fu_files, fu_uploading, fu_error, fu_toast,
                           fu_pc, fu_batch, fu_completed>>
       ELSE /\ fu_files' = <<>>
            /\ fu_completed' = TRUE
            /\ fu_uploading' = FALSE
            /\ fu_pc' = "idle"
            /\ fu_batch' = <<>>
            /\ fu_i' = 0
            /\ fu_sent' = <<>>
            /\ UNCHANGED <<fu_error, fu_toast>>
    /\ UNCHANGED fuothers

(* One iteration of the for loop up to its continue or its await, or the *)
(* code after the loop with the finally block.                           *)
FULoopStep ==
    /\ fu_pc = "loop"
    /\ IF fu_i <= Len(fu_batch)
       THEN LET file == fu_batch[fu_i]
                v == validateFile(file)
            IN  IF ~v.ok
                THEN /\ fu_error' = v.error
                     /\ fu_i' = fu_i + 1
                     /\ UNCHANGED <<fu_files, fu_uploading, fu_toast, fu_pc,
                                    fu_batch, fu_sent, fu_completed>>
                ELSE /\ fu_sent' = Append(fu_sent, file)
                     /\ fu_pc' = "await"
                     /\ UNCHANGED <<fu_files, fu_uploading, fu_error,
                                    fu_toast, fu_batch, fu_i, fu_completed>>
       ELSE /\ fu_files' = <<>>
            /\ fu_completed' = TRUE
            /\ fu_uploading' = FALSE
            /\ fu_pc' = "idle"
            /\ fu_batch' = <<>>
            /\ fu_i' = 0
            /\ fu_sent' = <<>>
            /\ UNCHANGED <<fu_error, fu_toast>>
    /\ UNCHANGED fuothers

(* fileAPI.uploadFile(file) resolves. *)
FUUploadResolves ==
    /\ fu_pc = "await"
    /\ fu_toast' = "Upload successful"
    /\ fu_i' = fu_i + 1
    /\ fu_pc' = "loop"
    /\ UNCHANGED <<fu_files, fu_uploading, fu_error, fu_batch, fu_sent,
                   fu_completed>>
    /\ UNCHANGED fuothers

(* fileAPI.uploadFile(file) rejects: the catch and the finally block. *)
FUUploadRejects ==
    /\ fu_pc = "await"
    /\ fu_error' = UploadErrorMessage
    /\ fu_toast' = "Upload failed"
    /\ fu_uploading' = FALSE
    /\ fu_pc' = "idle"
    /\ fu_batch' = <<>>
    /\ fu_i' = 0
    /\ fu_sent' = <<>>
    /\ UNCHANGED <<fu_files, fu_completed>>
    /\ UNCHANGED fuothers

FUNext ==
    \/ \E file \in Files : FUHandleFileChange(file)
    \/ \E droppedFiles \in SeqsUpTo(Files, MaxFiles) : FUHandleDrop(droppedFiles)
    \/ \E index \in 1..MaxFiles : FURemoveFile(index)
    \/ FUClear
    \/ FUUploadFiles
    \/ FULoopStep
    \/ FUUploadResolves
    \/ FUUploadRejects

(***************************************************************************)
(* Dashboard.  A request is in flight from the call of graphAPI/systemAPI  *)
(* until its promise settles; requests settle in any order.  A displayed   *)
(* response carries the id of the request it answers.                      *)
(***************************************************************************)
(* An optional field of a JSON body: <<>> when missing, <<v>> when present. *)
Opt(S) == {<<>>} \cup {<<v>> : v \in S}
(* ...(field || {}) under defaults, and x || default *)
OrElse(opt, default) == IF opt = <<>> THEN default ELSE opt[1]

(* The bodies GET /api/graph/overview answers with in this model. *)
WireGraphDatas == [nodes : Opt({<<>>, <<1>>}), links : Opt({<<>>})]
WireStats == [nodeCount : Opt({0, 1}), relationshipCount : Opt({0})]
OverviewBodies == [graphData : Opt(WireGraphDatas), stats : Opt(WireStats)]
(* The bodies GET /api/health answers with. *)
HealthBodies == [neo4j : {"connected", "disconnected"},
                 llm : {"available", "unavailable"}]

EmptyStats == [nodeCount |-> 0, relationshipCount |-> 0]
NoOverview == [req |-> None, present |-> FALSE,
               graphData |-> EmptyGraph, stats |-> EmptyStats]
NoHealth == [neo4j |-> "null", llm |-> "null"]

(* safeOverview: the body merged over the empty defaults. *)
safeOverview(req, body) ==
    LET g == OrElse(body.graphData, [nodes |-> <<>>, links |-> <<>>])
        st == OrElse(body.stats, [nodeCount |-> <<>>, relationshipCount |-> <<>>])
    IN  [req |-> req, present |-> TRUE,
         graphData |-> [nodes |-> OrElse(g.nodes, <<>>),
                        links |-> OrElse(g.links, <<>>)],
         stats |-> [nodeCount |-> OrElse(st.nodeCount, 0),
                    relationshipCount |-> OrElse(st.relationshipCount, 0)]]

(* The default empty structure set in loadGraphOverview's catch. *)
overviewOnError(req) ==
    [req |-> req, present |-> TRUE,
     graphData |-> EmptyGraph, stats |-> EmptyStats]

(* What the page renders of graphOverview: the two counts (x || 0) and *)
(* the preview graph, or the "graph is empty" box when it has no node. *)
DBOverviewShown(o) ==
    [entities |-> o.stats.nodeCount,
     relationships |-> o.stats.relationshipCount,
     preview |-> IF Len(o.graphData.nodes) > 0 THEN o.graphData ELSE EmptyGraph]

Request(kind, id) == [kind |-> kind, id |-> id]

DBInit ==
    /\ db_mounted = FALSE
    /\ db_loading = FALSE
    /\ db_queryResponse = None
    /\ db_graphOverview = NoOverview
    /\ db_healthStatus = NoHealth
    /\ db_pending = {}
    /\ db_nextReq = 1
    /\ db_console = NoError
    /\ db_toast = NoToast

(* useEffect(() => { loadGraphOverview(); checkHealth(); }, []) *)
DBMount ==
    /\ ~db_mounted
    /\ db_mounted' = TRUE
    /\ db_pending' = db_pending \cup {Request("overview", db_nextReq),
                                      Request("health", db_nextReq + 1)}
    /\ db_nextReq' = db_nextReq + 2
    /\ UNCHANGED <<db_loading, db_queryResponse, db_graphOverview,
                   db_healthStatus, db_console, db_toast>>
    /\ UNCHANGED dbothers

(* loadGraphOverview after its await, graphAPI.getOverview() resolved. *)
DBOverviewResolves(id, body) ==
    /\ Request("overview", id) \in db_pending
    /\ db_pending' = db_pending \ {Request("overview", id)}
    /\ db_graphOverview' = safeOverview(id, body)
    /\ UNCHANGED <<db_mounted, db_loading, db_queryResponse, db_healthStatus,
                   db_nextReq, db_console, db_toast>>
    /\ UNCHANGED dbothers

(* loadGraphOverview's catch. *)
DBOverviewRejects(id) ==
    /\ Request("overview", id) \in db_pending
    /\ db_pending' = db_pending \ {Request("overview", id)}
    /\ db_console' = "Error loading graph overview:"
    /\ db_graphOverview' = overviewOnError(id)
    /\ db_toast' = "Failed to load graph overview"
    /\ UNCHANGED <<db_mounted, db_loading, db_queryResponse, db_healthStatus,
                   db_nextReq>>
    /\ UNCHANGED dbothers

(* checkHealth after its await, systemAPI.health() resolved. *)
DBHealthResolves(id, body) ==
    /\ Request("health", id) \in db_pending
    /\ db_pending' = db_pending \ {Request("health", id)}
    /\ db_healthStatus' = [neo4j |-> body.neo4j, llm |-> body.llm]
    /\ UNCHANGED <<db_mounted, db_loading, db_queryResponse, db_graphOverview,
                   db_nextReq, db_console, db_toast>>
    /\ UNCHANGED dbothers

(* checkHealth's catch. *)
DBHealthRejects(id) ==
    /\ Request("health", id) \in db_pending
    /\ db_pending' = db_pending \ {Request("health", id)}
    /\ db_console' = "Health check failed:"
    /\ UNCHANGED <<db_mounted, db_loading, db_queryResponse, db_graphOverview,
                   db_healthStatus, db_nextReq, db_toast>>
    /\ UNCHANGED dbothers

(* handleQuery up to its await; the panel's submit button is disabled *)
(* while loading.                                                     *)
DBHandleQuery ==
    /\ db_mounted /\ ~db_loading
    /\ db_nextReq <= MaxRequests
    /\ db_loading' = TRUE
    /\ db_pending' = db_pending \cup {Request("query", db_nextReq)}
    /\ db_nextReq' = db_nextReq + 1
    /\ UNCHANGED <<db_mounted, db_queryResponse, db_graphOverview,
                   db_healthStatus, db_console, db_toast>>
    /\ UNCHANGED dbothers

(* A handleQuery whose catch also clears the answer on display. *)
DBQueryRejects_ClearsResponse(id) ==
    /\ Request("query", id) \in db_pending
    /\ db_pending' = db_pending \ {Request("query", id)}
    /\ db_console' = "Query error:"
    /\ db_toast' = "Query Error"
    /\ db_queryResponse' = None
    /\ db_loading' = FALSE
    /\ UNCHANGED <<db_mounted, db_graphOverview, db_healthStatus, db_nextReq>>
    /\ UNCHANGED dbothers

(* handleQuery after its await, graphAPI.query() resolved: the answer is *)
(* stored, the overview reloaded (not awaited), loading cleared.         *)
DBQueryResolves(id) ==
    /\ Request("query", id) \in db_pending
    /\ db_nextReq <= MaxRequests
    /\ db_queryResponse' = id
    /\ db_pending' = (db_pending \ {Request("query", id)})
                        \cup {Request("overview", db_nextReq)}
    /\ db_nextReq' = db_nextReq + 1
    /\ db_loading' = FALSE
    /\ UNCHANGED <<db_mounted, db_graphOverview, db_healthStatus, db_console,
                   db_toast>>
    /\ UNCHANGED dbothers

(* handleQuery's catch and finally. *)
DBQueryRejects(id) ==
    /\ Request("query", id) \in db_pending
    /\ db_pending' = db_pending \ {Request("query", id)}
    /\ db_console' = "Query error:"
    /\ db_toast' = "Query Error"
    /\ db_loading' = FALSE
    /\ UNCHANGED <<db_mounted, db_queryResponse, db_graphOverview,
                   db_healthStatus, db_nextReq>>
    /\ UNCHANGED dbothers

(* handleUploadComplete, the upload panel's onComplete. *)
DBHandleUploadComplete ==
    /\ db_mounted
    /\ db_nextReq <= MaxRequests
    /\ db_pending' = db_pending \cup {Request("overview", db_nextReq)}
    /\ db_nextReq' = db_nextReq + 1
    /\ db_toast' = "Upload complete"
    /\ UNCHANGED <<db_mounted, db_loading, db_queryResponse, db_graphOverview,
                   db_healthStatus, db_console>>
    /\ UNCHANGED dbothers

(* The Database Status alert without the healthStatus && guard. *)
DBShowsDatabaseWarning_Unguarded == db_healthStatus.neo4j # "connected"

(* {healthStatus && ( ... healthStatus.neo4j !== "connected" && <Alert> *)
DBShowsDatabaseWarning ==
    db_healthStatus # NoHealth /\ db_healthStatus.neo4j # "connected"

(* {healthStatus && ( ... healthStatus.llm !== "available" && <Alert> *)
DBShowsLLMWarning ==
    db_healthStatus # NoHealth /\ db_healthStatus.llm # "available"

RequestIds == 1..(MaxRequests + 1)

DBNext ==
    \/ DBMount
    \/ \E id \in RequestIds, body \in OverviewBodies : DBOverviewResolves(id, body)
    \/ \E id \in RequestIds : DBOverviewRejects(id)
    \/ \E id \in RequestIds, body \in HealthBodies : DBHealthResolves(id, body)
    \/ \E id \in RequestIds : DBHealthRejects(id)
    \/ DBHandleQuery
    \/ \E id \in RequestIds : DBQueryResolves(id)
    \/ \E id \in RequestIds : DBQueryRejects(id)
    \/ DBHandleUploadComplete

(***************************************************************************)
(* QueryInput.  A query is the sequence of its characters.                 *)
(***************************************************************************)
(* Characters String.prototype.trim strips, among those typed here. *)
WhiteSpace == {" ", "\t", "\n"}
Chars == {" ", "\n", "a"}

RECURSIVE trimStart(_)
trimStart(str) ==
    IF str # <<>> /\ Head(str) \in WhiteSpace THEN trimStart(Tail(str)) ELSE str

RECURSIVE trimEnd(_)
trimEnd(str) ==
    IF str # <<>> /\ str[Len(str)] \in WhiteSpace
    THEN trimEnd(SubSeq(str, 1, Len(str) - 1))
    ELSE str

trim(str) == trimEnd(trimStart(str))

(* The guard of handleSubmit without the trim. *)
QueryIsRejected_NoTrim(query) == Len(query) = 0

(* !query.trim(): the empty string is the falsy one. *)
QueryIsRejected(query) == Len(trim(query)) = 0

exampleQueries1 ==
    {<<"W", "h", "o", " ", "i", "s", " ", "t", "h", "e", " ", "C", "E",
      "O", " ", "o", "f", " ", "M", "i", "c", "r", "o", "s", "o", "f",
      "t", "?">>,
     <<"W", "h", "a", "t", " ", "c", "o", "m", "p", "a", "n", "i", "e",
      "s", " ", "a", "r", "e", " ", "l", "o", "c", "a", "t", "e", "d",
      " ", "i", "n", " ", "S", "a", "n", " ", "F", "r", "a", "n", "c",
      "i", "s", "c", "o", "?">>,
     <<"W", "h", "a", "t", " ", "i", "s", " ", "t", "h", "e", " ", "r",
      "e", "l", "a", "t", "i", "o", "n", "s", "h", "i", "p", " ", "b",
      "e", "t", "w", "e", "e", "n", " ", "T", "e", "s", "l", "a", " ",
      "a", "n", "d", " ", "S", "p", "a", "c", "e", "X", "?">>,
     <<"W", "h", "e", "n", " ", "w", "a", "s", " ", "t", "h", "e", " ",
      "l", "a", "s", "t", " ", "b", "o", "a", "r", "d", " ", "m", "e",
      "e", "t", "i", "n", "g", "?">>,
     <<"W", "h", "a", "t", " ", "a", "r", "e", " ", "t", "h", "e", " ",
      "k", "e", "y", " ", "p", "o", "i", "n", "t", "s", " ", "i", "n",
      " ", "t", "h", "e", " ", "q", "u", "a", "r", "t", "e", "r", "l",
      "y", " ", "r", "e", "p", "o", "r", "t", "?">>}

exampleQueries2 ==
    {<<"W", "h", "a", "t", " ", "a", "r", "e", " ", "t", "h", "e", " ",
      "m", "a", "i", "n", " ", "c", "o", "n", "c", "e", "p", "t", "s",
      " ", "i", "n", " ", "m", "y", " ", "k", "n", "o", "w", "l", "e",
      "d", "g", "e", " ", "g", "r", "a", "p", "h", "?">>,
     <<"H", "o", "w", " ", "a", "r", "e", " ", "e", "n", "t", "i", "t",
      "i", "e", "s", " ", "r", "e", "l", "a", "t", "e", "d", " ", "t",
      "o", " ", "e", "a", "c", "h", " ", "o", "t", "h", "e", "r", "?">>,
     <<"W", "h", "a", "t", " ", "i", "n", "f", "o", "r", "m", "a", "t",
      "i", "o", "n", " ", "d", "o", " ", "I", " ", "h", "a", "v", "e",
      " ", "a", "b", "o", "u", "t", " ", "[", "s", "p", "e", "c", "i",
      "f", "i", "c", " ", "e", "n", "t", "i", "t", "y", "]", "?">>}

(* What the user can type into the textarea in this model. *)
TypedQueries == SeqsUpTo(Chars, MaxQueryLen)

QIInit ==
    /\ qi_variant = None
    /\ qi_query = <<>>
    /\ qi_loading = FALSE
    /\ qi_outstanding = <<>>
    /\ qi_toast = NoToast

(* One of the two QueryInput components is mounted; useState("") and *)
(* defaultQuery = "", loading = false.                               *)
QIMount(variant) ==
    /\ qi_variant = None
    /\ qi_variant' = variant
    /\ UNCHANGED <<qi_query, qi_loading, qi_outstanding, qi_toast>>
    /\ UNCHANGED qiothers

(* onChange={(e) => setQuery(e.target.value)}, either variant *)
QISetQuery(value) ==
    /\ qi_variant # None
    /\ qi_query' = value
    /\ UNCHANGED <<qi_variant, qi_loading, qi_outstanding, qi_toast>>
    /\ UNCHANGED qiothers

(* handleExampleClick, either variant *)
QIHandleExampleClick(example) ==
    /\ qi_variant # None
    /\ example \in (IF qi_variant = 1 THEN exampleQueries1 ELSE exampleQueries2)
    /\ qi_query' = example
    /\ UNCHANGED <<qi_variant, qi_loading, qi_outstanding, qi_toast>>
    /\ UNCHANGED qiothers

(* Variant 1: the form is submitted through its submit button, which is *)
(* disabled while loading.  onSubmit is the page's handleQuery, which   *)
(* sets loading before it awaits the request.                           *)
QI1HandleSubmit ==
    /\ qi_variant = 1 /\ ~qi_loading
    /\ IF QueryIsRejected(qi_query)
       THEN /\ qi_toast' = "Query required"
            /\ UNCHANGED <<qi_loading, qi_outstanding>>
       ELSE /\ qi_outstanding' = Append(qi_outstanding, qi_query)
            /\ qi_loading' = TRUE
            /\ UNCHANGED qi_toast
    /\ UNCHANGED <<qi_variant, qi_query>>
    /\ UNCHANGED qiothers

(* Variant 1: the page's handleQuery completes (its finally). *)
QI1QueryCompletes ==
    /\ qi_variant = 1 /\ qi_outstanding # <<>>
    /\ qi_outstanding' = Tail(qi_outstanding)
    /\ qi_loading' = FALSE
    /\ UNCHANGED <<qi_variant, qi_query, qi_toast>>
    /\ UNCHANGED qiothers

(* Variant 2: handleSubmit up to its await. *)
QI2HandleSubmit ==
    /\ qi_variant = 2
    /\ IF QueryIsRejected(qi_query)
       THEN /\ qi_toast' = "Empty query"
            /\ UNCHANGED <<qi_loading, qi_outstanding>>
       ELSE /\ Len(qi_outstanding) < MaxOutstanding
            /\ qi_loading' = TRUE
            /\ qi_outstanding' = Append(qi_outstanding, qi_query)
            /\ UNCHANGED qi_toast
    /\ UNCHANGED <<qi_variant, qi_query>>
    /\ UNCHANGED qiothers

(* Variant 2: <Button onClick={handleSubmit} disabled={isLoading}> *)
QI2ButtonClick ==
    /\ ~qi_loading
    /\ QI2HandleSubmit

(* Variant 2: onKeyDown with Enter and ctrlKey *)
QI2CtrlEnter ==
    /\ qi_variant = 2
    /\ QI2HandleSubmit

(* Variant 2: handleSubmit after its await, onSubmit's promise fulfilled; *)
(* the calls complete in any order.                                       *)
QI2OnSubmitResolves(k) ==
    /\ qi_variant = 2 /\ k \in 1..Len(qi_outstanding)
    /\ qi_outstanding' = SubSeq(qi_outstanding, 1, k - 1)
                            \o SubSeq(qi_outstanding, k + 1, Len(qi_outstanding))
    /\ qi_loading' = FALSE
    /\ UNCHANGED <<qi_variant, qi_query, qi_toast>>
    /\ UNCHANGED qiothers

(* Variant 2: handleSubmit's catch and finally. *)
QI2OnSubmitRejects(k) ==
    /\ qi_variant = 2 /\ k \in 1..Len(qi_outstanding)
    /\ qi_outstanding' = SubSeq(qi_outstanding, 1, k - 1)
                            \o SubSeq(qi_outstanding, k + 1, Len(qi_outstanding))
    /\ qi_toast' = "Query failed"
    /\ qi_loading' = FALSE
    /\ UNCHANGED <<qi_variant, qi_query>>
    /\ UNCHANGED qiothers

QINext ==
    \/ \E variant \in {1, 2} : QIMount(variant)
    \/ \E value \in TypedQueries : QISetQuery(value)
    \/ \E example \in exampleQueries1 \cup exampleQueries2 :
          QIHandleExampleClick(example)
    \/ QI1HandleSubmit
    \/ QI1QueryCompletes
    \/ QI2ButtonClick
    \/ QI2CtrlEnter
    \/ \E k \in 1..MaxOutstanding : QI2OnSubmitResolves(k)
    \/ \E k \in 1..MaxOutstanding : QI2OnSubmitRejects(k)

(***************************************************************************)
(* Node style: the fill and the radius of a circle as functions of the     *)
(* node's label.  colors is an object literal, so colors[label] finds the  *)
(* literal's own properties and, for any other name, the members every     *)
(* object inherits from Object.prototype.                                  *)
(***************************************************************************)
baseSize == 7

(* calculateNodeRadius (first variant) *)
calculateNodeRadius(label) ==
    IF label = "Document" THEN baseSize + 5
    ELSE IF label = "Person" THEN baseSize + 3
    ELSE IF label = "Organization" THEN baseSize + 2
    ELSE baseSize

(* .attr("r", 8) (second variant) *)
nodeRadius2 == 8

colors1 ==
    [Person |-> "#4f46e5", Organization |-> "#0ea5e9", Location |-> "#10b981",
     Document |-> "#f97316", Concept |-> "#8b5cf6", Chunk |-> "#ec4899",
     Metadata |-> "#6b7280", Entity |-> "#ef4444"]
defaultColor1 == "#a16207"

colors2 ==
    [Person |-> "#4C9AFF", Organization |-> "#F78C6C", Location |-> "#82AAFF",
     Product |-> "#C792EA", Event |-> "#FFCB6B", Concept |-> "#89DDFF",
     Entity |-> "#7986CB"]
defaultColor2 == "#7986CB"

(* Names every object literal answers to through Object.prototype. *)
ObjectPrototypeMembers ==
    {"constructor", "toString", "toLocaleString", "valueOf", "hasOwnProperty",
     "isPrototypeOf", "propertyIsEnumerable", "__proto__"}
(* What such a lookup yields: a function or an object, not a colour. *)
InheritedMember == "[inherited member of Object.prototype]"
Undefined == "undefined"

(* colors[label] *)
Lookup(colors, label) ==
    IF label \in DOMAIN colors THEN colors[label]
    ELSE IF label \in ObjectPrototypeMembers THEN InheritedMember
    ELSE Undefined

(* value || fallback: undefined and "" are falsy, an object is not *)
OrDefault(value, fallback) ==
    IF value = Undefined \/ value = "" THEN fallback ELSE value

(* getNodeColor (first variant) *)
getNodeColor1(label) == OrDefault(Lookup(colors1, label), defaultColor1)
(* getNodeColor (second variant) *)
getNodeColor2(label) == OrDefault(Lookup(colors2, label), defaultColor2)

(* The labels drawn in this model: the recognised ones and some others. *)
Labels ==
    DOMAIN colors1 \cup DOMAIN colors2
       \cup {"Node", "Unknown", "person", "", "constructor", "toString",
             "valueOf", "hasOwnProperty", "__proto__"}

(* .attr("stroke", "#fff").attr("stroke-width", 1.5) *)
DefaultStroke == [stroke |-> "#fff", strokeWidth |-> "1.5"]
(* .attr("stroke", "#000").attr("stroke-width", 2) *)
HighlightStroke == [stroke |-> "#000", strokeWidth |-> "2"]

(* d3.select(target).attr(...): sets the attributes of the circle that is  *)
(* target; a selection of undefined holds no element and sets nothing.     *)
SelectAttr(strokes, target, value) ==
    [i \in 1..Len(strokes) |-> IF i = target THEN value ELSE strokes[i]]

(* d3.event?.currentTarget: the listeners are called as (event, d), the    *)
(* d3 API in which the d3.event global does not exist, so it is undefined. *)
d3EventCurrentTarget == None

(* handleMouseOver: event.currentTarget is the circle entered *)
handleMouseOver(strokes, currentTarget) ==
    SelectAttr(strokes, currentTarget, HighlightStroke)

(* handleMouseOut *)
handleMouseOut(strokes) ==
    SelectAttr(strokes, d3EventCurrentTarget, DefaultStroke)

STInit ==
    /\ st_labels = <<>>
    /\ st_fill1 = <<>>
    /\ st_r1 = <<>>
    /\ st_fill2 = <<>>
    /\ st_r2 = <<>>
    /\ st_stroke = <<>>
    /\ st_pointer = None

(* The circles each variant's effect appends for nodes with these labels. *)
STDrawNodes(labels) ==
    /\ st_labels = <<>>
    /\ st_labels' = labels
    /\ st_fill1' = [i \in 1..Len(labels) |-> getNodeColor1(labels[i])]
    /\ st_r1' = [i \in 1..Len(labels) |-> calculateNodeRadius(labels[i])]
    /\ st_fill2' = [i \in 1..Len(labels) |-> getNodeColor2(labels[i])]
    /\ st_r2' = [i \in 1..Len(labels) |-> nodeRadius2]
    /\ st_stroke' = [i \in 1..Len(labels) |-> DefaultStroke]
    /\ st_pointer' = None
    /\ UNCHANGED stothers

(* The pointer enters circle i: (event, d) => handleMouseOver(event, d). *)
STMouseOver(i) ==
    /\ st_pointer = None
    /\ i \in 1..Len(st_labels)
    /\ st_pointer' = i
    /\ st_stroke' = handleMouseOver(st_stroke, i)
    /\ UNCHANGED <<st_labels, st_fill1, st_r1, st_fill2, st_r2>>
    /\ UNCHANGED stothers

(* The renderer is unmounted and its circles are gone. *)
STUnmount ==
    /\ st_labels # <<>>
    /\ st_labels' = <<>>
    /\ st_fill1' = <<>>
    /\ st_r1' = <<>>
    /\ st_fill2' = <<>>
    /\ st_r2' = <<>>
    /\ st_stroke' = <<>>
    /\ st_pointer' = None
    /\ UNCHANGED stothers

(* The pointer leaves the circle it is on: handleMouseOut. *)
STMouseOut ==
    /\ st_pointer # None
    /\ st_pointer' = None
    /\ st_stroke' = handleMouseOut(st_stroke)
    /\ UNCHANGED <<st_labels, st_fill1, st_r1, st_fill2, st_r2>>
    /\ UNCHANGED stothers

STNext ==
    \/ \E labels \in SeqsUpTo(Labels, MaxNodes) : STDrawNodes(labels)
    \/ \E i \in 1..MaxNodes : STMouseOver(i)
    \/ STMouseOut
    \/ STUnmount

(***************************************************************************)
(* ResponseDisplay.  The response prop is the body of the query call as    *)
(* the server sent it, so graphData and its nodes and links fields may be  *)
(* missing.  The condition of the graph tab is part of the card's JSX and  *)
(* is evaluated on every render of the card, whichever tab is active; the  *)
(* renderer it selects is mounted while the graph tab is the active one.   *)
(***************************************************************************)
RDGraphDatas == [nodes : Opt(NodeSeqs), links : Opt(LinkSeqs)]
RDResponses == [graphData : Opt(RDGraphDatas)]
NoResponse == [graphData |-> <<>>]

(* response.graphData.nodes.length on a graphData without nodes *)
RDConditionThrows(r) ==
    r.graphData # <<>> /\ r.graphData[1].nodes = <<>>

(* response.graphData && response.graphData.nodes.length > 0 *)
RDCondition(r) ==
    r.graphData # <<>> /\ Len(r.graphData[1].nodes[1]) > 0

(* The first renderer variant mounted with data = response.graphData, a    *)
(* payload with at least one node: .data(data.links) raises a TypeError    *)
(* when links is missing, forceLink raises when an endpoint is not a node. *)
RDRendererError(w) ==
    IF w.links = <<>> THEN "TypeError"
    ELSE IF ForceLinkThrows([nodes |-> w.nodes[1], links |-> w.links[1]])
         THEN "node not found"
         ELSE NoError

(* One render of the card and the effects it runs: the error raised, if    *)
(* any, and what the active tab shows.                                     *)
RDRender(r, tab) ==
    IF RDConditionThrows(r)
    THEN [error |-> "TypeError", content |-> "none"]
    ELSE IF tab = "answer"
    THEN [error |-> NoError, content |-> "answer"]
    ELSE IF RDCondition(r)
    THEN LET err == RDRendererError(r.graphData[1])
         IN  [error |-> err,
              content |-> IF err = NoError THEN "renderer" ELSE "none"]
    ELSE [error |-> NoError, content |-> "placeholder"]

RDInit ==
    /\ rd_mounted = FALSE
    /\ rd_response = NoResponse
    /\ rd_activeTab = "answer"
    /\ rd_content = "none"
    /\ rd_error = NoError

(* An error raised while rendering takes the whole tree off the page. *)
RDShow(r, tab) ==
    LET out == RDRender(r, tab)
    IN  /\ rd_response' = r
        /\ rd_activeTab' = tab
        /\ rd_error' = out.error
        /\ rd_content' = out.content
        /\ rd_mounted' = (out.error = NoError)

(* The page renders <ResponseDisplay response={queryResponse} />. *)
RDMount(r) ==
    /\ ~rd_mounted
    /\ RDShow(r, "answer")
    /\ UNCHANGED rdothers

(* The page passes another response; activeTab is kept. *)
RDResponseChange(r) ==
    /\ rd_mounted
    /\ r # rd_response
    /\ RDShow(r, rd_activeTab)
    /\ UNCHANGED rdothers

(* onValueChange={setActiveTab} *)
RDSetActiveTab(tab) ==
    /\ rd_mounted
    /\ tab # rd_activeTab
    /\ RDShow(rd_response, tab)
    /\ UNCHANGED rdothers

RDUnmount ==
    /\ rd_mounted
    /\ rd_mounted' = FALSE
    /\ rd_content' = "none"
    /\ UNCHANGED <<rd_response, rd_activeTab, rd_error>>
    /\ UNCHANGED rdothers

RDNext ==
    \/ \E r \in RDResponses : RDMount(r)
    \/ \E r \in RDResponses : RDResponseChange(r)
    \/ \E tab \in {"answer", "graph"} : RDSetActiveTab(tab)
    \/ RDUnmount

(***************************************************************************)
(* Router.  Two variants of the application's Router exist: one guards     *)
(* /dashboard and /history by isAuthenticated and has no /settings route,  *)
(* the other starts with isAuthenticated = true and renders every page     *)
(* whatever isAuthenticated is.  The Login page is known here only by its  *)
(* setIsAuthenticated prop: what else a successful login stores or where   *)
(* it navigates is left open.                                              *)
(***************************************************************************)
(* The paths of the routes and of the Layout's navigation links. *)
Paths == {"/", "/login", "/register", "/dashboard", "/query", "/upload",
          "/history", "/settings"}

(* The page the guarded Router's <Switch> renders. *)
RTPage1(location, isAuthenticated) ==
    CASE location = "/" -> "Home"
      [] location = "/login" -> "Login"
      [] location = "/register" -> "Register"
      [] location = "/dashboard" ->
             IF isAuthenticated THEN "Dashboard" ELSE "Login"
      [] location = "/history" ->
             IF isAuthenticated THEN "History" ELSE "Login"
      [] OTHER -> "NotFound"

(* The page the demo Router's <Switch> renders. *)
RTPage2(location) ==
    CASE location = "/" -> "Dashboard"
      [] location = "/login" -> "Login"
      [] location = "/register" -> "Register"
      [] location = "/dashboard" -> "Dashboard"
      [] location = "/history" -> "History"
      [] location = "/settings" -> "Settings"
      [] OTHER -> "NotFound"

RTPage ==
    IF rt_variant = 0 THEN "none"
    ELSE IF rt_variant = 1 THEN RTPage1(rt_location, rt_isAuthenticated)
    ELSE RTPage2(rt_location)

(* The pages rendered inside <Layout onLogout={handleLogout}>. *)
LayoutPages == {"Dashboard", "History", "Settings"}

(* Home redirects to /dashboard when it finds a token in storage. *)
RTLand(variant, path, token) ==
    IF variant = 1 /\ path = "/" /\ token THEN "/dashboard" ELSE path

RTInit ==
    /\ rt_variant = 0
    /\ rt_isAuthenticated = FALSE
    /\ rt_location = "/"
    /\ rt_token = FALSE
    /\ rt_user = FALSE
    /\ rt_loggedOut = FALSE

(* The application loads at a path, with what storage holds from before:   *)
(* useState(false) or useState(true), then the effect's token check.       *)
RTMount(variant, path) ==
    /\ rt_variant = 0
    /\ rt_variant' = variant
    /\ rt_isAuthenticated' = ((variant = 2) \/ rt_token)
    /\ rt_location' = RTLand(variant, path, rt_token)
    /\ UNCHANGED <<rt_token, rt_user, rt_loggedOut>>
    /\ UNCHANGED rtothers

(* A link or the address bar changes the path. *)
RTNavigate(path) ==
    /\ rt_variant # 0
    /\ path # rt_location
    /\ rt_location' = RTLand(rt_variant, path, rt_token)
    /\ UNCHANGED <<rt_variant, rt_isAuthenticated, rt_token, rt_user,
                   rt_loggedOut>>
    /\ UNCHANGED rtothers

(* handleLogout, reached through the Layout's onLogout. *)
RTHandleLogout ==
    /\ RTPage \in LayoutPages
    /\ rt_token' = FALSE
    /\ rt_user' = FALSE
    /\ rt_isAuthenticated' = FALSE
    /\ rt_location' = "/login"
    /\ rt_loggedOut' = TRUE
    /\ UNCHANGED rt_variant
    /\ UNCHANGED rtothers

(* The Login (or Register) page reports success: setIsAuthenticated(true). *)
RTLoginSucceeds(storesToken, storesUser, navigates) ==
    /\ RTPage \in {"Login", "Register"}
    /\ rt_isAuthenticated' = TRUE
    /\ rt_loggedOut' = FALSE
    /\ rt_token' = (rt_token \/ storesToken)
    /\ rt_user' = (rt_user \/ storesUser)
    /\ rt_location' = IF navigates THEN "/dashboard" ELSE rt_location
    /\ UNCHANGED rt_variant
    /\ UNCHANGED rtothers

(* The tab is closed; storage stays. *)
RTUnload ==
    /\ rt_variant # 0
    /\ rt_variant' = 0
    /\ rt_isAuthenticated' = FALSE
    /\ rt_location' = "/"
    /\ UNCHANGED <<rt_token, rt_user, rt_loggedOut>>
    /\ UNCHANGED rtothers

RTNext ==
    \/ \E variant \in {1, 2}, path \in Paths : RTMount(variant, path)
    \/ \E path \in Paths : RTNavigate(path)
    \/ RTHandleLogout
    \/ \E storesToken \in BOOLEAN, storesUser \in BOOLEAN,
          navigates \in BOOLEAN :
             RTLoginSucceeds(storesToken, storesUser, navigates)
    \/ RTUnload

(***************************************************************************)
(* Detail panel: the properties of the selected node or link, listed by    *)
(* key after each variant's filter.  A property bag is its set of keys.    *)
(***************************************************************************)
PropertyKeys ==
    {"created_by", "created_at", "user_id", "name", "source", "confidence"}

(* .filter(([key]) => !['created_by', 'created_at'].includes(key)) *)
nodeProperties1(properties) ==
    {key \in properties : key \notin {"created_by", "created_at"}}

(* .filter(([key]) => key !== 'user_id'), selected node *)
nodeProperties2(properties) == {key \in properties : key # "user_id"}

(* .filter(([key]) => key !== 'user_id'), selected link *)
linkProperties2(properties) == {key \in properties : key # "user_id"}

DPInit ==
    /\ dp_panel = "none"
    /\ dp_properties = {}
    /\ dp_displayed = {}

(* First variant: a node is selected and its panel rendered. *)
DPSelectNode1(properties) ==
    /\ dp_panel' = "node1"
    /\ dp_properties' = properties
    /\ dp_displayed' = nodeProperties1(properties)
    /\ UNCHANGED dpothers

(* Second variant: a node is selected and its panel rendered. *)
DPSelectNode2(properties) ==
    /\ dp_panel' = "node2"
    /\ dp_properties' = properties
    /\ dp_displayed' = nodeProperties2(properties)
    /\ UNCHANGED dpothers

(* Second variant: a link is selected and its panel rendered. *)
DPSelectLink2(properties) ==
    /\ dp_panel' = "link2"
    /\ dp_properties' = properties
    /\ dp_displayed' = linkProperties2(properties)
    /\ UNCHANGED dpothers

(* The selection is cleared and the panel goes away. *)
DPClose ==
    /\ dp_panel # "none"
    /\ dp_panel' = "none"
    /\ dp_properties' = {}
    /\ dp_displayed' = {}
    /\ UNCHANGED dpothers

DPNext ==
    \/ \E properties \in SUBSET PropertyKeys : DPSelectNode1(properties)
    \/ \E properties \in SUBSET PropertyKeys : DPSelectNode2(properties)
    \/ \E properties \in SUBSET PropertyKeys : DPSelectLink2(properties)
    \/ DPClose

(***************************************************************************)
(* Specifications, one per component.                                      *)
(***************************************************************************)
(***************************************************************************)
(* The server: POST /api/db-config and the storage it swaps.  A MemStorage *)
(* is modelled by its users (id and username), its currentId and the keys  *)
(* of its nodes and relationships maps.                                    *)
(***************************************************************************)
MaxUsers == 1

Usernames == {"a"}
EntityIds == {1}

(* new MemStorage() *)
MemStorage == [users |-> {}, nodes |-> {}, relationships |-> {}, currentId |-> 1]

NoStorage == [users |-> {}, nodes |-> {}, relationships |-> {}, currentId |-> 0]

NoReply == [status |-> 0, useInMemory |-> FALSE, connected |-> FALSE]

addNode(s, id) == [s EXCEPT !.nodes = @ \cup {id}]

addRelationship(s, id) == [s EXCEPT !.relationships = @ \cup {id}]

createUser(s, username) ==
    [s EXCEPT !.users = @ \cup {[id |-> s.currentId, username |-> username]},
              !.currentId = @ + 1]

(* The storage in use: global.storage once the handler has set it, the *)
(* storage module's singleton before.                                  *)
ActiveStorage ==
    IF sv_global = "memStorage" THEN sv_memStorage ELSE sv_storage

SVInit ==
    /\ sv_variant = None
    /\ sv_storage = MemStorage
    /\ sv_memStorage = NoStorage
    /\ sv_global = "undefined"
    /\ sv_response = NoReply

(* registerRoutes(app), one of the two *)
SVRegisterRoutes(variant) ==
    /\ sv_variant = None
    /\ sv_variant' = variant
    /\ UNCHANGED <<sv_storage, sv_memStorage, sv_global, sv_response>>
    /\ UNCHANGED svothers

(* A write to the storage in use. *)
SVWrite(s) ==
    /\ sv_variant # None
    /\ IF sv_global = "memStorage"
       THEN sv_memStorage' = s /\ UNCHANGED sv_storage
       ELSE sv_storage' = s /\ UNCHANGED sv_memStorage
    /\ UNCHANGED <<sv_variant, sv_global, sv_response>>
    /\ UNCHANGED svothers

SVCreateUser(username) ==
    /\ ActiveStorage.currentId <= MaxUsers
    /\ SVWrite(createUser(ActiveStorage, username))

SVAddNode(id) ==
    /\ sv_variant # None
    /\ SVWrite(addNode(ActiveStorage, id))

SVAddRelationship(id) ==
    /\ sv_variant # None
    /\ SVWrite(addRelationship(ActiveStorage, id))

(***************************************************************************)
(* app.post('/api/db-config', ...) with body {useInMemory}.  The first     *)
(* registerRoutes does not import MemStorage: its new MemStorage() throws  *)
(* a ReferenceError, which the catch answers with status 500.              *)
(***************************************************************************)
SVPostDbConfig(useInMemory) ==
    /\ sv_variant # None
    /\ IF sv_variant = 1
       THEN IF useInMemory
            THEN /\ sv_response' = [status |-> 500, useInMemory |-> FALSE,
                                    connected |-> FALSE]
                 /\ UNCHANGED <<sv_memStorage, sv_global>>
            ELSE /\ sv_response' = [status |-> 200,
                                    useInMemory |-> useInMemory,
                                    connected |-> TRUE]
                 /\ UNCHANGED <<sv_memStorage, sv_global>>
       ELSE /\ IF useInMemory
               THEN sv_memStorage' = MemStorage /\ sv_global' = "memStorage"
               ELSE sv_global' = "storage" /\ UNCHANGED sv_memStorage
            /\ sv_response' = [status |-> 200, useInMemory |-> useInMemory,
                               connected |-> TRUE]
    /\ UNCHANGED <<sv_variant, sv_storage>>
    /\ UNCHANGED svothers

SVNext ==
    \/ \E variant \in {1, 2} : SVRegisterRoutes(variant)
    \/ \E username \in Usernames : SVCreateUser(username)
    \/ \E id \in EntityIds : SVAddNode(id)
    \/ \E id \in EntityIds : SVAddRelationship(id)
    \/ \E useInMemory \in BOOLEAN : SVPostDbConfig(useInMemory)


Init == GV1Init /\ GV2Init /\ FUInit /\ DBInit /\ QIInit /\ STInit /\ RDInit /\ RTInit /\ DPInit /\ SVInit

SpecGV1 == Init /\ [][GV1Next]_vars
(* A running simulation's timer keeps ticking: with alpha target 0 its *)
(* alpha decays below alphaMin and the timer stops.                    *)
SpecGV1Fair ==
    SpecGV1 /\ \A s \in 1..MaxSims : WF_vars(GV1SimSettles(s))
SpecGV1Zoom == Init /\ [][GV1ZoomNext]_vars
SpecGV2 == Init /\ [][GV2Next]_vars
SpecFU == Init /\ [][FUNext]_vars
SpecDB == Init /\ [][DBNext]_vars
SpecQI == Init /\ [][QINext]_vars
SpecStyle == Init /\ [][STNext]_vars
SpecRD == Init /\ [][RDNext]_vars
SpecRT == Init /\ [][RTNext]_vars
SpecDP == Init /\ [][DPNext]_vars
SpecSV == Init /\ [][SVNext]_vars


(***************************************************************************)
(* C1: for every GraphData whose nodes list is empty, each renderer        *)
(* variant shows its empty-state placeholder and no force simulation is    *)
(* created or started for that data.                                       *)
(***************************************************************************)
C1_EmptyDataStartsNoSimulation ==
    /\ gv1_mounted /\ Len(gv1_data.nodes) = 0
          => GV1Placeholder /\ gv1_effectSim = None
                            /\ RunningSims(gv1_sims) = {}
    /\ gv2_mounted /\ Len(gv2_data.nodes) = 0
          => GV2Placeholder /\ gv2_effectSim = None
                            /\ RunningSims(gv2_sims) = {}

(***************************************************************************)
(* C2: a link with an endpoint id that is no node of the payload is left   *)
(* out of the drawn edges and rendering goes on without error: the circles *)
(* drawn are nodes.length and the lines drawn are the links whose two      *)
(* endpoints are both present.                                             *)
(***************************************************************************)
C2_DanglingLinksAreSkipped ==
    /\ ~gv1_crashed
    /\ gv1_mounted /\ Len(gv1_data.nodes) > 0
          => /\ gv1_circles = Len(gv1_data.nodes)
             /\ gv1_lines = ValidLinkCount(gv1_data)
    /\ ~gv2_crashed
    /\ gv2_mounted
          => /\ gv2_circles = Len(gv2_data.nodes)
             /\ gv2_lines = ValidLinkCount(gv2_data)

(***************************************************************************)
(* C3: in the renderer with edge selection, selectedNode and selectedLink  *)
(* are never both set; a node click selects exactly that node and clears   *)
(* the selected edge, an edge click selects exactly that edge and clears   *)
(* the selected node, a background click or the panel's close button       *)
(* clears both.                                                            *)
(***************************************************************************)
C3_NothingSelected == gv2_selectedNode = None /\ gv2_selectedLink = NoLink

C3_SelectionExclusive ==
    /\ [](gv2_selectedNode = None \/ gv2_selectedLink = NoLink)
    /\ [][/\ \A n \in NodeIds :
               GV2NodeClick(n)
                  => gv2_selectedNode' = n /\ gv2_selectedLink' = NoLink
          /\ \A l \in Links :
               GV2LinkClick(l)
                  => gv2_selectedLink' = l /\ gv2_selectedNode' = None
          /\ GV2BackgroundClick => C3_NothingSelected'
          /\ GV2ClosePanel => C3_NothingSelected']_vars

(* A node is selected while the payload has an edge that could be too. *)
C3_Witness ==
    /\ gv2_mounted
    /\ gv2_selectedNode # None
    /\ gv2_selectedLink = NoLink
    /\ gv2_lines > 0

(***************************************************************************)
(* C10: at most one force simulation of a renderer instance is running at  *)
(* any time, and none is running once the instance is unmounted.           *)
(***************************************************************************)
C10_AtMostOneSimulationRuns ==
    /\ Cardinality(RunningSims(gv1_sims)) <= 1
    /\ ~gv1_mounted => RunningSims(gv1_sims) = {}

(***************************************************************************)
(* C4: in a multi-file batch a failed upload does not block the remaining  *)
(* files: when uploadFiles() ends, every file of the batch that passes     *)
(* validation has been passed to the upload call.                          *)
(***************************************************************************)
C4_FailureDoesNotBlockLaterFiles ==
    [][fu_uploading /\ ~fu_uploading'
          => Len(fu_sent) =
                Cardinality({k \in 1..Len(fu_batch) :
                                 validateFile(fu_batch[k]).ok})]_vars

(***************************************************************************)
(* C9: a file reaches the upload call only if it passes validation.  As    *)
(* claimed: every file larger than 15 MB is rejected with the size-limit   *)
(* message and is never sent, a file whose MIME type and extension are     *)
(* both outside the allowed sets is rejected with the unsupported-type     *)
(* message, and a .pdf file of at most 15 MB passes.  As amended: the      *)
(* size-limit message is that of a file larger than 15 MB whose MIME type  *)
(* or extension is allowed (the type is checked first).                    *)
(***************************************************************************)
C9_TypeAllowed(file) ==
    \/ file.type \in allowedTypes
    \/ \E ext \in validExtensions : endsWith(toLowerCase(file.name), ext)
C9_IsPdf(file) == endsWith(toLowerCase(file.name), <<".", "p", "d", "f">>)
C9_TwentyMB == 20 * 1024 * 1024
C9_Inputs ==
    [name : FileNames \cup {<<"p", "d", "f">>, <<"r", ".", "T", "x", "T">>},
     type : FileTypes \cup {"", "text/csv"},
     size : FileSizes \cup {0, maxSize - 1, C9_TwentyMB}]

(* The file the loop of uploadFiles() has just dealt with. *)
C9_JustHandled == fu_pc = "loop" /\ fu_i > 1
C9_Previous == fu_batch[fu_i - 1]
C9_LastSent == fu_sent # <<>> /\ fu_sent[Len(fu_sent)] = C9_Previous

C9_NeverSentUnvalidated ==
    \A k \in 1..Len(fu_sent) :
        fu_sent[k].size <= maxSize /\ C9_TypeAllowed(fu_sent[k])

C9_AsClaimed ==
    /\ C9_NeverSentUnvalidated
    /\ C9_JustHandled /\ C9_Previous.size > maxSize
          => fu_error = SizeLimitMessage /\ ~C9_LastSent
    /\ C9_JustHandled /\ ~C9_TypeAllowed(C9_Previous)
          => fu_error = UnsupportedTypeMessage /\ ~C9_LastSent
    /\ C9_JustHandled /\ C9_IsPdf(C9_Previous) /\ C9_Previous.size <= maxSize
          => C9_LastSent

C9_ValidationGatesUpload ==
    /\ C9_NeverSentUnvalidated
    /\ C9_JustHandled /\ C9_Previous.size > maxSize
          => ~C9_LastSent
    /\ C9_JustHandled /\ C9_Previous.size > maxSize /\ C9_TypeAllowed(C9_Previous)
          => fu_error = SizeLimitMessage
    /\ C9_JustHandled /\ ~C9_TypeAllowed(C9_Previous)
          => fu_error = UnsupportedTypeMessage /\ ~C9_LastSent
    /\ C9_JustHandled /\ C9_IsPdf(C9_Previous) /\ C9_Previous.size <= maxSize
          => C9_LastSent
    /\ \A file \in C9_Inputs :
          /\ ~C9_TypeAllowed(file)
                => validateFile(file) = [ok |-> FALSE, error |-> UnsupportedTypeMessage]
          /\ C9_TypeAllowed(file) /\ file.size > maxSize
                => validateFile(file) = [ok |-> FALSE, error |-> SizeLimitMessage]
          /\ C9_IsPdf(file) /\ file.size <= maxSize => validateFile(file).ok

(* A .pdf of more than 15 MB has just been rejected with the size message, *)
(* after an earlier file of the batch went to the upload call.             *)
C9_Witness ==
    /\ C9_JustHandled
    /\ C9_IsPdf(C9_Previous) /\ C9_Previous.size > maxSize
    /\ fu_error = SizeLimitMessage
    /\ fu_sent # <<>>

(***************************************************************************)
(* C5: last request wins: the displayed graphOverview and queryResponse    *)
(* are never replaced by the response to an older request than the one     *)
(* whose response they show.                                               *)
(***************************************************************************)
C5_LastRequestWins ==
    [][/\ db_graphOverview'.req >= db_graphOverview.req
       /\ db_queryResponse' >= db_queryResponse]_vars

(***************************************************************************)
(* C7: a failed query, overview or health request is caught and leaves     *)
(* the displayed state alone.  As claimed: queryResponse, what is shown of *)
(* graphOverview (graph and stats) and healthStatus are all unchanged by   *)
(* each of the three failures.  As amended: that holds for a failed query  *)
(* and a failed health check; a failed overview request leaves             *)
(* queryResponse and healthStatus unchanged and replaces graphOverview by  *)
(* the empty overview (no nodes, no links, both counts 0).                 *)
(***************************************************************************)
C7_AFailureIsHandled ==
    \E id \in RequestIds :
        DBQueryRejects(id) \/ DBOverviewRejects(id) \/ DBHealthRejects(id)

C7_AsClaimed ==
    [][C7_AFailureIsHandled
          => /\ UNCHANGED <<db_queryResponse, db_healthStatus>>
             /\ DBOverviewShown(db_graphOverview')
                   = DBOverviewShown(db_graphOverview)]_vars

C7_FailuresKeepDisplayedState ==
    [][/\ \A id \in RequestIds :
            DBQueryRejects(id) \/ DBHealthRejects(id)
               => UNCHANGED <<db_queryResponse, db_graphOverview,
                              db_healthStatus>>
       /\ \A id \in RequestIds :
            DBOverviewRejects(id)
               => /\ UNCHANGED <<db_queryResponse, db_healthStatus>>
                  /\ db_graphOverview'.present
                  /\ db_graphOverview'.graphData = EmptyGraph
                  /\ db_graphOverview'.stats = EmptyStats]_vars

(* A query failed while an answer, an overview with a node and a health *)
(* status were on display, and they still are.                          *)
C7_Witness ==
    /\ db_console = "Query error:"
    /\ db_toast = "Query Error"
    /\ db_queryResponse # None
    /\ Len(db_graphOverview.graphData.nodes) > 0
    /\ db_healthStatus # NoHealth

(***************************************************************************)
(* C6: at any time at most one query request issued by a query panel       *)
(* instance is outstanding, whichever way the query is submitted.          *)
(***************************************************************************)
C6_OneOutstandingQuery == Len(qi_outstanding) <= 1

(***************************************************************************)
(* C8: in both QueryInput variants and on every submission path, a query   *)
(* that is empty or all whitespace is never passed to onSubmit, and        *)
(* submitting it shows the validation message.                             *)
(***************************************************************************)
C8_IsBlank(query) == \A k \in 1..Len(query) : query[k] \in WhiteSpace

C8_Submits == QI1HandleSubmit \/ QI2ButtonClick \/ QI2CtrlEnter

C8_ValidationMessage == IF qi_variant = 1 THEN "Query required" ELSE "Empty query"

C8_BlankQueryIsNeverSubmitted ==
    /\ [](\A k \in 1..Len(qi_outstanding) : ~C8_IsBlank(qi_outstanding[k]))
    /\ [][C8_Submits /\ C8_IsBlank(qi_query)
             => /\ qi_toast' = C8_ValidationMessage
                /\ UNCHANGED <<qi_outstanding, qi_loading>>]_vars

(* A whitespace-only query was submitted: the message is shown and no *)
(* call is outstanding.                                               *)
C8_Witness ==
    /\ qi_variant # None
    /\ qi_query # <<>> /\ C8_IsBlank(qi_query)
    /\ qi_toast = C8_ValidationMessage
    /\ qi_outstanding = <<>>
    /\ ~qi_loading

(***************************************************************************)
(* C11: the renderer never mutates the GraphData value its caller passed:  *)
(* after rendering, node drags and Reset the caller's node and link        *)
(* objects are as they were passed (no layout or pin fields on the nodes,  *)
(* source and target of every link still ids).                             *)
(***************************************************************************)
C11_CallerDataIsNotMutated == gv1_objects = AsPassed(gv1_data)

(***************************************************************************)
(* C12: from every scale inside the allowed range, pressing zoom-in and    *)
(* then zoom-out leaves the zoom scale of the <svg> at the value it had    *)
(* before the two presses.                                                 *)
(***************************************************************************)
C12_InExtent(k) ==
    ScaleLeq(scaleExtent1[1], k) /\ ScaleLeq(k, scaleExtent1[2])

C12_ZoomInThenOutRestoresScale ==
    gv1_mounted /\ GV1SvgRendered(gv1_data) /\ C12_InExtent(gv1_zoom)
       => handleZoomOut1(handleZoomIn1(GV1ZoomState)).zoom = gv1_zoom

(***************************************************************************)
(* C13: Reset always sets the zoom transform to one fixed default, the     *)
(* transform in effect right after the first render of the same data, for  *)
(* any number of nodes.                                                    *)
(***************************************************************************)
C13_ResetRestoresInitialTransform ==
    [][GV1HandleReset
          => gv1_zoom' = GV1InitialZoom(gv1_data, zoomIdentity)]_vars

(***************************************************************************)
(* C14: after any sequence of gestures and button presses the zoom scale   *)
(* (of the <svg> element's transform and of the layer it is applied to)    *)
(* is within scaleExtent, 0.25 to 5.                                       *)
(***************************************************************************)
C14_ScaleStaysInExtent ==
    /\ gv1_zoom # NoTransform
          => ScaleLeq(scaleExtent1[1], gv1_zoom)
                /\ ScaleLeq(gv1_zoom, scaleExtent1[2])
    /\ gv1_layer # NoTransform
          => ScaleLeq(scaleExtent1[1], gv1_layer)
                /\ ScaleLeq(gv1_layer, scaleExtent1[2])

(***************************************************************************)
(* C19: node selection is a toggle in the first variant: a click on the    *)
(* node that is currently selected clears the selection (and a click on    *)
(* any other node selects it).                                             *)
(***************************************************************************)
C19_ClickOnSelectedNodeDeselects ==
    gv1_mounted /\ gv1_effectSim # None /\ gv1_selectedNode.current
       => handleNodeClick(gv1_selectedNode, gv1_handlerSelectedNode) = NoNode

(***************************************************************************)
(* C20: the zoom-in, zoom-out and reset buttons act on the transform the   *)
(* gestures act on: after a button press the layer's transform and the     *)
(* tracked zoomTransform both equal the new transform of the <svg>.        *)
(***************************************************************************)
C20_ButtonsMoveLayerAndState ==
    [][GV1HandleZoomIn \/ GV1HandleZoomOut \/ GV1HandleReset
          => gv1_layer' = gv1_zoom' /\ gv1_zoomTransform' = gv1_zoom']_vars

(***************************************************************************)
(* C15: colour and radius are total functions of the label: a label that   *)
(* is none of the recognised ones gets the fallback colour of its variant  *)
(* and (first variant) the base radius; every fill is a colour of the      *)
(* palette or the fallback, never blank; Document, Person and Organization *)
(* get a radius above the base size.                                       *)
(***************************************************************************)
C15_Palette1 == {colors1[l] : l \in DOMAIN colors1} \cup {defaultColor1}
C15_Palette2 == {colors2[l] : l \in DOMAIN colors2} \cup {defaultColor2}

C15_StyleIsTotal ==
    \A i \in 1..Len(st_labels) :
        /\ st_fill1[i] \in C15_Palette1
        /\ st_fill2[i] \in C15_Palette2
        /\ st_labels[i] \notin DOMAIN colors1 => st_fill1[i] = defaultColor1
        /\ st_labels[i] \notin DOMAIN colors2 => st_fill2[i] = defaultColor2
        /\ st_labels[i] \notin {"Document", "Person", "Organization"}
              => st_r1[i] = baseSize
        /\ st_labels[i] \in {"Document", "Person", "Organization"}
              => st_r1[i] > baseSize

(***************************************************************************)
(* C17: the Dashboard shows the database warning exactly when the latest   *)
(* health response's neo4j field is not "connected" and the LLM warning    *)
(* exactly when its llm field is not "available", each on its own; while   *)
(* no health response has been received, a failed check included, it shows *)
(* neither, and nothing but a health response changes either warning.      *)
(***************************************************************************)
C17_HealthResponse(body) == \E id \in RequestIds : DBHealthResolves(id, body)

C17_WarningsFollowHealth ==
    /\ [](db_healthStatus = NoHealth
             => ~DBShowsDatabaseWarning /\ ~DBShowsLLMWarning)
    /\ [][\A body \in HealthBodies :
             C17_HealthResponse(body)
                => /\ DBShowsDatabaseWarning' <=> body.neo4j # "connected"
                   /\ DBShowsLLMWarning' <=> body.llm # "available"]_vars
    /\ [][(\A body \in HealthBodies : ~C17_HealthResponse(body))
             => /\ DBShowsDatabaseWarning' <=> DBShowsDatabaseWarning
                /\ DBShowsLLMWarning' <=> DBShowsLLMWarning]_vars

(* A response reporting the database down and the LLM up: one warning only. *)
C17_Witness ==
    /\ db_healthStatus = [neo4j |-> "disconnected", llm |-> "available"]
    /\ DBShowsDatabaseWarning
    /\ ~DBShowsLLMWarning

(***************************************************************************)
(* C16: a payload whose graphData, nodes or links field is missing is      *)
(* handled as the graph with that field empty: the overview loader stores  *)
(* [] for each missing array, and the response card raises no error on     *)
(* such a response and shows on its graph tab what it shows for the        *)
(* payload with the missing arrays set to [].                              *)
(***************************************************************************)
C16_MissingField(r) ==
    \/ r.graphData = <<>>
    \/ r.graphData[1].nodes = <<>>
    \/ r.graphData[1].links = <<>>

C16_Defaulted(r) ==
    LET g == OrElse(r.graphData, [nodes |-> <<>>, links |-> <<>>])
    IN  [graphData |-> <<[nodes |-> <<OrElse(g.nodes, <<>>)>>,
                          links |-> <<OrElse(g.links, <<>>)>>]>>]

C16_MissingFieldsAreEmptyGraph ==
    /\ \A body \in OverviewBodies :
          LET g == OrElse(body.graphData, [nodes |-> <<>>, links |-> <<>>])
          IN  safeOverview(None, body).graphData
                 = [nodes |-> OrElse(g.nodes, <<>>),
                    links |-> OrElse(g.links, <<>>)]
    /\ C16_MissingField(rd_response)
          => /\ rd_error = NoError
             /\ rd_mounted
                   => rd_content
                         = RDRender(C16_Defaulted(rd_response),
                                    rd_activeTab).content

(***************************************************************************)
(* C18: the Dashboard, History and Settings pages are rendered only while  *)
(* isAuthenticated is true; a logout clears token and user, sets           *)
(* isAuthenticated to false and goes to /login, and from then until a      *)
(* login succeeds (isAuthenticated false all along) none of the three      *)
(* pages is rendered.                                                      *)
(***************************************************************************)
C18_PagesRequireAuthentication ==
    /\ [](RTPage \in LayoutPages => rt_isAuthenticated /\ ~rt_loggedOut)
    /\ [][RTHandleLogout
             => /\ ~rt_token' /\ ~rt_user' /\ ~rt_isAuthenticated'
                /\ rt_location' = "/login"]_vars

(***************************************************************************)
(* C21: a press of Reset leaves no rendered node pinned, leaves the stored *)
(* transform at the default one, and leaves the live simulation running    *)
(* (reheated), whatever the state it is pressed in.                        *)
(***************************************************************************)
C21_ResetClearsPinsZoomAndReheats ==
    [][GV2HandleReset
          => /\ gv2_pinned' = {}
             /\ gv2_zoom' = initialZoom2
             /\ gv2_effectSim # None
                   => gv2_sims'[gv2_effectSim].running]_vars

(***************************************************************************)
(* C22: dragStarted pins its node and reheats the live simulation (alpha   *)
(* target 0.3, running), which stays so for the whole drag; the node stays *)
(* pinned during the drag unless Reset is pressed meanwhile, and the next  *)
(* drag event pins it again; when the drag has ended no rendered node is   *)
(* pinned and every alpha target is 0, and a simulation that is running    *)
(* then stops unless a new drag starts.                                    *)
(***************************************************************************)
C22_Pinned(n) ==
    \E i \in 1..Len(gv1_objects.nodes) :
        gv1_objects.nodes[i].id = n /\ gv1_objects.nodes[i].fx = "number"

C22_DragIsLive == gv1_drag # NoDrag /\ gv1_drag.sim = gv1_effectSim
(* The drag's subject is a node object of the data now rendered. *)
C22_SubjectRendered ==
    /\ gv1_drag # NoDrag
    /\ gv1_drag.sim = Len(gv1_sims)
    /\ \E i \in 1..Len(gv1_objects.nodes) :
          gv1_objects.nodes[i].id = gv1_drag.node

C23_OnlyHoveredNodeIsHighlighted ==
    \A i \in 1..Len(st_stroke) :
        i # st_pointer => st_stroke[i] = DefaultStroke

(***************************************************************************)
(* C24: whatever node or link is selected, the panel lists none of the     *)
(* keys created_by, created_at and user_id, and lists every other key of   *)
(* the selected entity's properties.                                       *)
(***************************************************************************)
C24_InternalKeys == {"created_by", "created_at", "user_id"}

C24_InternalKeysAreHidden ==
    dp_panel # "none" => dp_displayed = dp_properties \ C24_InternalKeys

(***************************************************************************)
(* C25: the accepted files of a batch are sent one at a time in list       *)
(* order: the files sent so far are the accepted ones among the files the  *)
(* loop has reached, in their order; a file is sent only while no request  *)
(* is outstanding, and the outstanding request is the one for the file the *)
(* loop stands at.                                                         *)
(***************************************************************************)
C25_Accepted(file) == validateFile(file).ok
C25_Reached == IF fu_pc = "await" THEN fu_i ELSE fu_i - 1

C25_UploadsAreSequential ==
    /\ [](fu_sent = SelectSeq(SubSeq(fu_batch, 1, C25_Reached), C25_Accepted))
    /\ [](fu_pc = "await"
             => fu_sent # <<>> /\ fu_sent[Len(fu_sent)] = fu_batch[fu_i])
    /\ [][fu_sent' # fu_sent /\ fu_sent' # <<>>
             => /\ fu_pc = "loop" /\ fu_pc' = "await"
                /\ fu_sent' = Append(fu_sent, fu_batch[fu_i])]_vars

(* The second file of a batch is out, after the first one was answered. *)
C25_Witness ==
    /\ fu_pc = "await"
    /\ fu_i = 2
    /\ Len(fu_sent) = 2
    /\ fu_toast = "Upload successful"

(***************************************************************************)
(* C27: onComplete is called only by a batch that uploaded at least one    *)
(* file, and a batch that uploaded none leaves the file list as it was.    *)
(***************************************************************************)
C27_CompleteOnlyAfterAnUpload ==
    [][fu_uploading /\ ~fu_uploading' /\ fu_sent = <<>>
          => /\ fu_completed' = fu_completed
             /\ fu_files' = fu_files]_vars

(***************************************************************************)
(* C28: a file dropped while a batch is running (it stands in the file     *)
(* list behind the files the batch was started with) is still in the file  *)
(* list when the batch finishes.                                           *)
(***************************************************************************)
C28_DroppedFilesSurviveTheBatch ==
    [][fu_uploading /\ ~fu_uploading'
          => \A k \in (Len(fu_batch) + 1)..Len(fu_files) :
                \E j \in 1..Len(fu_files') : fu_files'[j] = fu_files[k]]_vars

(***************************************************************************)
(* C26: the busy indicator of a query panel is on exactly while a query    *)
(* request it issued is outstanding.                                       *)
(***************************************************************************)
C26_BusyExactlyWhileOutstanding == qi_loading <=> (qi_outstanding # <<>>)

(***************************************************************************)
(* C29: when the renderer receives a new snapshot, the node or link        *)
(* selected on the previous snapshot is no longer selected.                *)
(***************************************************************************)
C29_NewSnapshotClearsSelection ==
    [][(\E d \in GraphDatas : GV2DataChange(d))
          => gv2_selectedNode' = None /\ gv2_selectedLink' = NoLink]_vars

(***************************************************************************)
(* C30: a POST /api/db-config that repeats the useInMemory value of the    *)
(* call before it leaves the contents of the storage in use unchanged, and *)
(* every call answered with status 200 is answered with the requested      *)
(* useInMemory value and connected: true.                                  *)
(***************************************************************************)
C30_DbConfigIsIdempotent ==
    [][\A useInMemory \in BOOLEAN :
          SVPostDbConfig(useInMemory)
             => /\ sv_response'.status = 200
                   => /\ sv_response'.useInMemory = useInMemory
                      /\ sv_response'.connected
                /\ sv_response.status = 200 /\ sv_response.useInMemory = useInMemory
                   => ActiveStorage' = ActiveStorage]_vars

=============================================================================
